---- MODULE Spec2Model ----
(***************************************************************************)
(* State-machine model of the gossip_glomers nodes: the Maelstrom runtime  *)
(* (src/src/maelstrom.rs), the lock-based applications (src/bin/kafka_log  *)
(* and src/bin/txn_rw_register), the whole-root transaction store          *)
(* (src/bin/txn_list_append) and the two broadcast protocols               *)
(* (src/bin/broadcast_v1, src/bin/broadcast_v2).  The external lin-kv      *)
(* service is modelled from its wire protocol.                             *)
(***************************************************************************)
EXTENDS Integers, Sequences, FiniteSets, TLC

\* ------------------------------------------------------------------ bounds
\* client requests read from stdin over all nodes in one run
MaxReq == 2
\* CAS attempts one distributed_lock call makes before the model stops it
MaxTries == 2
MaxResend == 1   \* requests sent again by rpcs with retry = true, over all nodes
MaxDup == 1      \* lines the network delivers a second time
MaxLines == 4    \* input lines one runtime reads before the end of its input

\* ------------------------------------------------------------- the universe
Nodes == {"n1", "n2"}
BNodes == {"n1", "n2", "n3"}
LinKv == "lin-kv"
SeqKv == "seq-kv"
Client == "c1"
LogKeys == {"k1", "k2"}
NoId == -1
NoTask == 0

\* message::Value (message.rs 141-149); Absent is a key the store does not hold
VNone == [t |-> "None"]
VInt(i) == [t |-> "Int", v |-> i]
VVec(s) == [t |-> "Vec", v |-> s]
VStr(s) == [t |-> "String", v |-> s]
VMap(m) == [t |-> "Map", v |-> m]
Absent == [t |-> "Absent"]

\* Value::as_int: Some(v) for Int, None otherwise; the callers' default is d
AsIntOr(val, d) == IF val.t = "Int" THEN val.v ELSE d
IsInt(val) == val.t = "Int"
\* Value::as_vec: Some(v) for Vec, None otherwise
IsVec(val) == val.t = "Vec"
AsVecOrDefault(val) == IF val.t = "Vec" THEN val.v ELSE << >>

\* format!("{key}-commited")
Commited(key) == IF key = "k1" THEN "k1-commited" ELSE "k2-commited"
CommitKeys == {Commited(k) : k \in LogKeys}
\* the register keys of txn_rw_register (key.to_string() of a u64)
RegKeys == {"1", "2"}
StoreKeys == {"lock", "root"} \cup LogKeys \cup CommitKeys \cup RegKeys \cup Nodes

VARIABLES
    app,        \* which binary the nodes run
    net,        \* messages in flight (lines not yet read by their destination)
    out,        \* replies written to clients
    store,      \* the lin-kv service: key -> Value or Absent
    nextId,     \* MaelstromInner.next_msg_id, per node
    rpcTab,     \* MaelstromInner.rpc, per node: msg ids with a registered sender
    mutex,      \* the application's local Mutex<()>, per node: holder task or NoTask
    task,       \* the handler tasks spawned by run_with_app, in dispatch order
    panics,     \* tasks of the runtime that panicked (process_response on a dropped receiver)
    held,       \* history: acquire CAS answered cas_ok minus release CAS answered cas_ok
    applied,    \* history: the writes to the log keys and to root that took effect, in order
    topology,   \* broadcast: the neighbour map the clients send in Topology
    topoSent,   \* broadcast: per node, its Topology request was read
    neighbours, \* BroadcastApp.neighbours, per node
    messages,   \* BroadcastApp.messages, per node: the seen-set
    neighbours_meta,  \* BroadcastApp.neighbours_meta, per node: neighbour -> pending values
    gossip,     \* broadcast_v2: the gossip_broadcast task of each node, "run" or "panicked"
    forwards,   \* history: which handler task forwarded or buffered which value for whom
    retrying,   \* the requests of the rpcs spawned with retry = true
    resends,    \* how often an rpc sent its request again
    handlers,   \* broadcast: the handler tasks spawned by run_with_app
    counters,   \* grow_counter_v1: GrowOnlyCounterApp.counters, per node: peer -> slot
    recv,       \* history: per node and peer, the state values handled, in order
    dups,       \* grow_counter_v1: how often the network delivered a line once more
    adds,       \* grow_counter_v1: the handler tasks spawned by run_with_app
    unlocked,   \* history: register operations that took effect at the store while the
                \* lock key did not hold the id of their node
    node,       \* runtime: MaelstromInner.node, the identity cell
    loop,       \* runtime: run_with_app is "reading", "closing", or returned "ok" / "err"
    lines,      \* history: the kinds of the input lines read, in order
    rpc,        \* runtime: MaelstromInner.rpc, the msg ids with a registered sender
    next_msg_id,  \* runtime: MaelstromInner.next_msg_id
    task_tracker, \* runtime: MaelstromInner.task_tracker, the tasks spawned through it
    calls,      \* runtime: the calls of Maelstrom::rpc
    outbox,     \* runtime: the lines written to stdout
    processed,  \* history: the replies process_response handled, in order
    atEof       \* history: the tasks that were running when the input ended

bcast == <<topology, topoSent, neighbours, messages, neighbours_meta, gossip, forwards,
           retrying, resends, handlers>>

ctr == <<counters, recv, dups, adds>>

run == <<node, loop, lines, rpc, next_msg_id, task_tracker, calls, outbox, processed, atEof>>

vars == <<app, net, out, store, nextId, rpcTab, mutex, task, panics, held, applied, bcast,
          ctr, run, unlocked>>

NoMsg == [type |-> "none"]

\* MessageBody of a request to the store.  A message is a record src, dest, id
\* (msg_id), re (in_reply_to), type, key, from, to; "to" also carries the value of
\* a write and of a read_ok.  acq is history: the lock argument of distributed_lock.
NoRpc == [type |-> "none"]
ReadBody(key) ==
    [type |-> "read", key |-> key, from |-> VNone, to |-> VNone, acq |-> FALSE]
WriteBody(key, value) ==
    [type |-> "write", key |-> key, from |-> VNone, to |-> value, acq |-> FALSE]
CasBody(key, from, to, acq) ==
    [type |-> "cas", key |-> key, from |-> from, to |-> to, acq |-> acq]

\* ------------------------------------------------------------ lin-kv service
\* the reply of the store to request m in the current state
StoreReplyType(m) ==
    CASE m.type = "read" -> IF store[m.key] = Absent THEN "error" ELSE "read_ok"
      [] m.type = "write" -> "write_ok"
      [] m.type = "cas" ->
            IF store[m.key] = Absent \/ store[m.key] = m.from THEN "cas_ok" ELSE "error"

\* the value of the key after the store handled m (cas carries create_if_not_exists)
StoreNewValue(m) ==
    CASE m.type = "read" -> store[m.key]
      [] m.type = "write" -> m.to
      [] m.type = "cas" ->
            IF store[m.key] = Absent \/ store[m.key] = m.from THEN m.to ELSE store[m.key]

StoreReply(m) ==
    [src |-> m.dest, dest |-> m.src, id |-> NoId, re |-> m.id, type |-> StoreReplyType(m),
     key |-> m.key, from |-> VNone,
     to |-> IF m.type = "read" /\ store[m.key] # Absent THEN store[m.key] ELSE VNone,
     acq |-> FALSE]


\* lin-kv handles one request: the operation takes effect and the reply is sent
StoreHandle(m) ==
    /\ m \in net
    /\ m.dest \in {LinKv, SeqKv}
    /\ store' = [store EXCEPT ![m.key] = StoreNewValue(m)]
    /\ net' = (net \ {m}) \cup {StoreReply(m)}
    /\ held' = IF m.key = "lock" /\ StoreReplyType(m) = "cas_ok"
                THEN (IF m.acq THEN held + 1 ELSE held - 1)
                ELSE held
    /\ applied' = IF m.key \in LogKeys \cup {"root"} /\ StoreReplyType(m) \in {"write_ok", "cas_ok"}
                   THEN Append(applied, [src |-> m.src, id |-> m.id, key |-> m.key,
                                         pre |-> Len(AsVecOrDefault(store[m.key])),
                                         old |-> store[m.key]])
                   ELSE applied
    /\ unlocked' = IF m.key \in RegKeys /\ store["lock"] # VStr(m.src)
                    THEN unlocked \cup {[src |-> m.src, id |-> m.id, op |-> m.type,
                                         lock |-> store["lock"]]}
                    ELSE unlocked
    /\ UNCHANGED <<app, run, ctr, out, nextId, rpcTab, mutex, task, panics, bcast>>

\* ------------------------------------------------------------------ runtime
\* the service the rpcs of the running binary go to
Kv == IF app = "grow_counter_v2" THEN SeqKv ELSE LinKv

\* pcs at which a handler task is suspended in Maelstrom::rpc's select!
Waiting(tk) == tk.wait # NoId

\* Maelstrom::rpc up to its select!: allocate the id, register the sender, send
RpcSend(n, body) ==
    /\ net' = net \cup {[src |-> n, dest |-> Kv, id |-> nextId[n], re |-> NoId,
                          type |-> body.type, key |-> body.key, from |-> body.from,
                          to |-> body.to, acq |-> body.acq]}
    /\ nextId' = [nextId EXCEPT ![n] = @ + 1]
    /\ rpcTab' = [rpcTab EXCEPT ![n] = @ \cup {nextId[n]}]

\* the task of node n whose rpc waits for the reply to msg id
Waiter(n, id) == {t \in 1..Len(task) : task[t].node = n /\ task[t].wait = id}

\* run_with_app reads a reply line and spawns process_response, which removes the
\* sender and fulfils it; sender.send(..).unwrap() panics when the receiver is gone
ProcessResponse(m) ==
    /\ m \in net
    /\ m.dest \in Nodes
    /\ m.re # NoId
    /\ net' = net \ {m}
    /\ rpcTab' = [rpcTab EXCEPT ![m.dest] = @ \ {m.re}]
    /\ IF m.re \in rpcTab[m.dest]
       THEN IF Waiter(m.dest, m.re) # {}
            THEN /\ task' = [t \in 1..Len(task) |->
                               IF t \in Waiter(m.dest, m.re)
                               THEN [task[t] EXCEPT !.resp = m] ELSE task[t]]
                 /\ UNCHANGED panics
            ELSE /\ panics' = panics + 1
                 /\ UNCHANGED task
       ELSE UNCHANGED <<task, panics>>
    /\ UNCHANGED <<app, unlocked, run, ctr, out, store, nextId, mutex, held, applied, bcast>>

\* the value a handler takes from a read reply (ReadOk => value, _ => Value::None)
ReadValue(resp) == IF resp.type = "read_ok" THEN resp.to ELSE VNone

NoReply == [kind |-> "none"]
\* a reply written to the client of handler task t
Reply(t, kind, payload) == [by |-> t, kind |-> kind, payload |-> payload]

\* One resumption of handler task t: its record becomes tk2, it sends the rpc
\* body (and suspends in it) unless body is NoRpc, writes the reply rep unless
\* NoReply, and sets the local mutex of its node to mx.
Advance(t, tk2, body, rep, mx) ==
    LET n == task[t].node IN
    /\ task' = [task EXCEPT ![t] =
                  IF body.type = "none"
                  THEN [tk2 EXCEPT !.wait = NoId, !.resp = NoMsg]
                  ELSE [tk2 EXCEPT !.wait = nextId[n], !.resp = NoMsg,
                                   !.sent = @ \cup {<<body.type, body.key>>}]]
    /\ IF body.type = "none"
       THEN UNCHANGED <<net, nextId, rpcTab>>
       ELSE RpcSend(n, body)
    /\ out' = IF rep.kind = "none" THEN out ELSE out \cup {rep}
    /\ mutex' = [mutex EXCEPT ![n] = mx]
    /\ UNCHANGED <<app, unlocked, run, ctr, store, panics, held, applied, bcast>>

\* a handler task is resumed with the reply to the rpc it waits in
Resumed(t, pc) ==
    /\ t \in 1..Len(task)
    /\ task[t].pc = pc
    /\ task[t].resp # NoMsg

\* ------------------------------------------------------- kafka_log.rs
\* distributed_lock's (from, to): the swapped pair is the mutant of C1
KafkaLockPairSwapped(n, lock) ==
    IF lock THEN <<VStr(n), VNone>> ELSE <<VNone, VStr(n)>>

KafkaLockPair(n, lock) ==
    IF lock THEN <<VNone, VStr(n)>> ELSE <<VStr(n), VNone>>

\* the lock set by an unconditional write: the request C26 rules out
KafkaLockBodyWrite(n, lock) == WriteBody("lock", KafkaLockPair(n, lock)[2])

KafkaLockBody(n, lock) ==
    CasBody("lock", KafkaLockPair(n, lock)[1], KafkaLockPair(n, lock)[2], lock)

\* distributed_lock leaves its loop on CasOk only; leaving it on any reply is
\* the mutant of C2
KafkaCasDoneAny(resp) == TRUE

KafkaCasDone(resp) == resp.type = "cas_ok"

\* Send's offset = data.len() taken before the push; taking it after is the mutant of C3
SendOffsetAfterPush(data) == Len(data) + 1

SendOffset(data) == Len(data)

\* Poll's filter |(idx, _)| idx >= offset; the strict comparison is the mutant of C4
PollKeepStrict(idx, offset) == idx > offset

PollKeep(idx, offset) == idx >= offset

\* data.into_iter().enumerate().filter(..).map(|(idx, value)| [idx, value]).collect()
RECURSIVE PollCollect(_, _, _)
PollCollect(data, idx, offset) ==
    IF idx >= Len(data) THEN << >>
    ELSE (IF PollKeep(idx, offset) THEN << <<idx, data[idx + 1]>> >> ELSE << >>)
         \o PollCollect(data, idx + 1, offset)

\* CommitOffsets writes when last_comitted_offset < *offset; writing always is
\* the mutant of C5
CommitAdvancesAlways(last, offset) == TRUE

CommitAdvances(last, offset) == last < offset

\* msgs.insert(key, data)
MapInsert(map, key, val) == [k \in DOMAIN map \cup {key} |-> IF k = key THEN val ELSE map[k]]
EmptyMap == [k \in {} |-> 0]

\* handler, first await: the local mutex; then the first rpc of the arm
KBegin(t) ==
    /\ app = "kafka_log"
    /\ t \in 1..Len(task)
    /\ task[t].pc = "start"
    /\ mutex[task[t].node] = NoTask
    /\ LET tk == task[t]
           n == tk.node
       IN CASE tk.op \in {"send", "commit_offsets"} ->
                 Advance(t, [tk EXCEPT !.pc = "acq", !.tries = 1],
                         KafkaLockBody(n, TRUE), NoReply, t)
            [] tk.op = "poll" ->
                 IF Len(tk.offs) = 0
                 THEN Advance(t, [tk EXCEPT !.pc = "done"], NoRpc,
                              Reply(t, "poll_ok", EmptyMap), NoTask)
                 ELSE Advance(t, [tk EXCEPT !.pc = "pread", !.i = 1],
                              ReadBody(tk.offs[1][1]), NoReply, t)
            [] tk.op = "list_committed_offsets" ->
                 Advance(t, [tk EXCEPT !.pc = "oread", !.i = 1],
                         ReadBody(Commited(tk.txn[1])), NoReply, t)

\* the commit loop at index i: read the next committed offset, or reply and release
CommitLoop(t, tk, i) ==
    IF i <= Len(tk.offs)
    THEN Advance(t, [tk EXCEPT !.pc = "cread", !.i = i],
                 ReadBody(Commited(tk.offs[i][1])), NoReply, t)
    ELSE Advance(t, [tk EXCEPT !.pc = "rel", !.i = i, !.tries = 1, !.lock = "released"],
                 KafkaLockBody(tk.node, FALSE), Reply(t, "commit_offsets_ok", EmptyMap), t)

\* distributed_lock(true): a reply to the acquire CAS
KAcquire(t) ==
    /\ app = "kafka_log"
    /\ Resumed(t, "acq")
    /\ LET tk == task[t]
           n == tk.node
       IN IF KafkaCasDone(tk.resp)
          THEN IF tk.op = "send"
               THEN Advance(t, [tk EXCEPT !.pc = "sread", !.lock = "held"],
                            ReadBody(tk.key), NoReply, t)
               ELSE CommitLoop(t, [tk EXCEPT !.lock = "held"], 1)
          ELSE /\ tk.tries < MaxTries
               /\ Advance(t, [tk EXCEPT !.tries = @ + 1], KafkaLockBody(n, TRUE), NoReply, t)

\* Send: the read returned; offset = data.len(), push, write back
KSendRead(t) ==
    /\ app = "kafka_log"
    /\ Resumed(t, "sread")
    /\ LET tk == task[t]
           data == AsVecOrDefault(ReadValue(tk.resp))
       IN Advance(t, [tk EXCEPT !.pc = "swrite", !.offset = SendOffset(data),
                                !.data = Append(data, tk.msg), !.wid = nextId[tk.node]],
                  WriteBody(tk.key, VVec(Append(data, tk.msg))), NoReply, t)

\* Send: the write returned; reply send_ok, then distributed_lock(false)
KSendWrite(t) ==
    /\ app = "kafka_log"
    /\ Resumed(t, "swrite")
    /\ LET tk == task[t]
       IN Advance(t, [tk EXCEPT !.pc = "rel", !.tries = 1, !.lock = "released"],
                  KafkaLockBody(tk.node, FALSE), Reply(t, "send_ok", tk.offset), t)

\* Poll: one read returned; filter it, then the next key or the reply
KPollRead(t) ==
    /\ app = "kafka_log"
    /\ Resumed(t, "pread")
    /\ LET tk == task[t]
           val == ReadValue(tk.resp)
           key == tk.offs[tk.i][1]
           res == IF IsVec(val)
                  THEN MapInsert(tk.res, key, PollCollect(val.v, 0, tk.offs[tk.i][2]))
                  ELSE tk.res
       IN IF tk.i < Len(tk.offs)
          THEN Advance(t, [tk EXCEPT !.i = @ + 1, !.res = res, !.seen = Append(@, val)],
                       ReadBody(tk.offs[tk.i + 1][1]), NoReply, t)
          ELSE Advance(t, [tk EXCEPT !.pc = "done", !.res = res, !.seen = Append(@, val)],
                       NoRpc, Reply(t, "poll_ok", res), NoTask)

\* ListCommittedOffsets: offsets.insert(key.to_owned(), offset), where key is the
\* local `let key = format!("{key}-commited")` that shadows the requested key
ListEntryKey(key) == Commited(key)

\* ListCommittedOffsets: one read returned; an Int is inserted, then the next
\* key or the reply
KListRead(t) ==
    /\ app = "kafka_log"
    /\ Resumed(t, "oread")
    /\ LET tk == task[t]
           val == ReadValue(tk.resp)
           res == IF IsInt(val)
                  THEN MapInsert(tk.res, ListEntryKey(tk.txn[tk.i]), val.v)
                  ELSE tk.res
       IN IF tk.i < Len(tk.txn)
          THEN Advance(t, [tk EXCEPT !.i = @ + 1, !.res = res],
                       ReadBody(Commited(tk.txn[tk.i + 1])), NoReply, t)
          ELSE Advance(t, [tk EXCEPT !.pc = "done", !.res = res], NoRpc,
                       Reply(t, "list_committed_offsets_ok", res), NoTask)

\* CommitOffsets: the read of "{key}-commited" returned
KCommitRead(t) ==
    /\ app = "kafka_log"
    /\ Resumed(t, "cread")
    /\ LET tk == task[t]
           key == Commited(tk.offs[tk.i][1])
           offset == tk.offs[tk.i][2]
           last == AsIntOr(ReadValue(tk.resp), -1)
       IN IF CommitAdvances(last, offset)
          THEN Advance(t, [tk EXCEPT !.pc = "cwrite"], WriteBody(key, VInt(offset)), NoReply, t)
          ELSE CommitLoop(t, tk, tk.i + 1)

\* CommitOffsets: the write returned
KCommitWrite(t) ==
    /\ app = "kafka_log"
    /\ Resumed(t, "cwrite")
    /\ CommitLoop(t, task[t], task[t].i + 1)

\* distributed_lock(false): a reply to the release CAS
KRelease(t) ==
    /\ app = "kafka_log"
    /\ Resumed(t, "rel")
    /\ LET tk == task[t]
       IN IF KafkaCasDone(tk.resp)
          THEN Advance(t, [tk EXCEPT !.pc = "done"], NoRpc, NoReply, NoTask)
          ELSE /\ tk.tries < MaxTries
               /\ Advance(t, [tk EXCEPT !.tries = @ + 1], KafkaLockBody(tk.node, FALSE),
                          NoReply, t)

\* rpc(.., retry = false): the interval ticks before the reply is taken; every
\* rpc of the handler is followed by ?, so the handler returns Err and its guard drops
KTimeout(t) ==
    /\ app = "kafka_log"
    /\ t \in 1..Len(task)
    /\ Waiting(task[t])
    /\ Advance(t, [task[t] EXCEPT !.pc = "failed"], NoRpc, NoReply, NoTask)

\* ------------------------------------------------------- txn_rw_register.rs
RwLockPair(n, acquire) ==
    IF acquire THEN <<VNone, VStr(n)>> ELSE <<VStr(n), VNone>>

RwLockBody(n, acquire) ==
    CasBody("lock", RwLockPair(n, acquire)[1], RwLockPair(n, acquire)[2], acquire)

RwCasDone(resp) == resp.type = "cas_ok"

\* handler, Txn arm: the local mutex, then distributed_lock(true)
RBegin(t) ==
    /\ app = "txn_rw_register"
    /\ t \in 1..Len(task)
    /\ task[t].pc = "start"
    /\ mutex[task[t].node] = NoTask
    /\ Advance(t, [task[t] EXCEPT !.pc = "acq", !.tries = 1],
               RwLockBody(task[t].node, TRUE), NoReply, t)

\* transaction_handler's loop at operation i: its rpc, or (past the last one)
\* the txn_ok reply followed by distributed_lock(false)
RwTxnLoop(t, tk, i) ==
    IF i <= Len(tk.txn)
    THEN Advance(t, [tk EXCEPT !.pc = "top", !.i = i],
                 IF tk.txn[i].f = "r" THEN ReadBody(tk.txn[i].k)
                                      ELSE WriteBody(tk.txn[i].k, tk.txn[i].v),
                 NoReply, t)
    ELSE Advance(t, [tk EXCEPT !.pc = "rel", !.i = i, !.tries = 1, !.lock = "released"],
                 RwLockBody(tk.node, FALSE), Reply(t, "txn_ok", tk.txn), t)

\* distributed_lock(true): a reply to the acquire CAS
RAcquire(t) ==
    /\ app = "txn_rw_register"
    /\ Resumed(t, "acq")
    /\ LET tk == task[t]
       IN IF RwCasDone(tk.resp)
          THEN RwTxnLoop(t, [tk EXCEPT !.lock = "held"], 1)
          ELSE /\ tk.tries < MaxTries
               /\ Advance(t, [tk EXCEPT !.tries = @ + 1], RwLockBody(tk.node, TRUE),
                          NoReply, t)

\* transaction_handler: the rpc of operation i returned; a Read keeps the value
RTxnOp(t) ==
    /\ app = "txn_rw_register"
    /\ Resumed(t, "top")
    /\ LET tk == task[t]
           txn == IF tk.txn[tk.i].f = "r"
                  THEN [tk.txn EXCEPT ![tk.i].v = ReadValue(tk.resp)]
                  ELSE tk.txn
       IN RwTxnLoop(t, [tk EXCEPT !.txn = txn], tk.i + 1)

\* transaction_handler: an rpc timed out, it returns Err; the handler sends no
\* reply (if let Ok) and goes on to distributed_lock(false)
RTxnTimeout(t) ==
    /\ app = "txn_rw_register"
    /\ t \in 1..Len(task)
    /\ task[t].pc = "top"
    /\ Waiting(task[t])
    /\ Advance(t, [task[t] EXCEPT !.pc = "rel", !.tries = 1, !.aborted = TRUE,
                                  !.lock = "released"],
               RwLockBody(task[t].node, FALSE), NoReply, t)

\* distributed_lock(false): a reply to the release CAS
RRelease(t) ==
    /\ app = "txn_rw_register"
    /\ Resumed(t, "rel")
    /\ LET tk == task[t]
       IN IF RwCasDone(tk.resp)
          THEN Advance(t, [tk EXCEPT !.pc = "done"], NoRpc, NoReply, NoTask)
          ELSE /\ tk.tries < MaxTries
               /\ Advance(t, [tk EXCEPT !.tries = @ + 1], RwLockBody(tk.node, FALSE),
                          NoReply, t)

\* distributed_lock: the CAS rpc timed out; ? returns Err from the handler
RTimeout(t) ==
    /\ app = "txn_rw_register"
    /\ t \in 1..Len(task)
    /\ task[t].pc \in {"acq", "rel"}
    /\ Waiting(task[t])
    /\ Advance(t, [task[t] EXCEPT !.pc = "failed"], NoRpc, NoReply, NoTask)

\* ------------------------------------------------------- txn_list_append.rs
\* let mut data = match old_data { Value::Map(v) => v, _ => HashMap::new() }
RootMap(old) == IF old.t = "Map" THEN old.v ELSE EmptyMap

\* the loop with an Append that puts its value in front of the list: the order
\* C30 rules out
RECURSIVE ApplyTxnPushFront(_, _, _)
ApplyTxnPushFront(txn, data, i) ==
    IF i > Len(txn) THEN [txn |-> txn, data |-> data, panic |-> FALSE]
    ELSE IF txn[i].f = "r"
         THEN IF txn[i].k \in DOMAIN data
              THEN ApplyTxnPushFront([txn EXCEPT ![i].v = VVec(data[txn[i].k])], data, i + 1)
              ELSE [txn |-> txn, data |-> data, panic |-> TRUE]
         ELSE ApplyTxnPushFront(txn,
                       MapInsert(data, txn[i].k,
                                 <<txn[i].v.v>> \o (IF txn[i].k \in DOMAIN data
                                                    THEN data[txn[i].k] ELSE << >>)),
                       i + 1)

\* the loop over the operations from index i on the in-memory copy data: a Read
\* takes data.get(key)..unwrap() (a panic on a missing key), an Append pushes
RECURSIVE ApplyTxn(_, _, _)
ApplyTxn(txn, data, i) ==
    IF i > Len(txn) THEN [txn |-> txn, data |-> data, panic |-> FALSE]
    ELSE IF txn[i].f = "r"
         THEN IF txn[i].k \in DOMAIN data
              THEN ApplyTxn([txn EXCEPT ![i].v = VVec(data[txn[i].k])], data, i + 1)
              ELSE [txn |-> txn, data |-> data, panic |-> TRUE]
         ELSE ApplyTxn(txn,
                       MapInsert(data, txn[i].k,
                                 Append(IF txn[i].k \in DOMAIN data THEN data[txn[i].k]
                                        ELSE << >>, txn[i].v.v)),
                       i + 1)

\* the commit request: a blind write of the new root is the mutant of C6
ListCommitBodyWrite(old, new) == WriteBody("root", new)

ListCommitBody(old, new) == CasBody("root", old, new, FALSE)

\* transaction_handler, first await: the local mutex; then the read of root
LBegin(t) ==
    /\ app = "txn_list_append"
    /\ t \in 1..Len(task)
    /\ task[t].pc = "start"
    /\ mutex[task[t].node] = NoTask
    /\ Advance(t, [task[t] EXCEPT !.pc = "lread"], ReadBody("root"), NoReply, t)

\* transaction_handler: the read returned; apply the operations, send the CAS
LRead(t) ==
    /\ app = "txn_list_append"
    /\ Resumed(t, "lread")
    /\ LET tk == task[t]
           old == ReadValue(tk.resp)
           r == ApplyTxn(tk.txn, RootMap(old), 1)
       IN IF r.panic
          THEN Advance(t, [tk EXCEPT !.pc = "panicked", !.old = old], NoRpc, NoReply, NoTask)
          ELSE Advance(t, [tk EXCEPT !.pc = "lcas", !.old = old, !.txn = r.txn,
                                     !.new = VMap(r.data), !.wid = nextId[tk.node]],
                       ListCommitBody(old, VMap(r.data)), NoReply, t)

\* transaction_handler: the CAS returned; an Error reply is Err("failed cas"),
\* which the handler answers with error code 30, anything else is txn_ok
LCas(t) ==
    /\ app = "txn_list_append"
    /\ Resumed(t, "lcas")
    /\ LET tk == task[t]
       IN IF tk.resp.type = "error"
          THEN Advance(t, [tk EXCEPT !.pc = "done", !.aborted = TRUE], NoRpc,
                       Reply(t, "error", 30), NoTask)
          ELSE Advance(t, [tk EXCEPT !.pc = "done"], NoRpc, Reply(t, "txn_ok", tk.txn), NoTask)

\* an rpc of transaction_handler timed out: ? returns Err, and the handler
\* answers every Err with error code 30
LTimeout(t) ==
    /\ app = "txn_list_append"
    /\ t \in 1..Len(task)
    /\ Waiting(task[t])
    /\ Advance(t, [task[t] EXCEPT !.pc = "failed"], NoRpc, Reply(t, "error", 30), NoTask)

\* --------------------------------------- broadcast_v1.rs and broadcast_v2.rs
BApps == {"broadcast_v1", "broadcast_v2"}

\* OnceCell<Vec<String>>: empty until the first set
Unset == [set |-> FALSE, v |-> {}]
Cell(s) == [set |-> TRUE, v |-> s]

\* the topology map the clients send: the line n1 - n2 - n3, a connected graph
Line == [n \in BNodes |-> IF n = "n2" THEN {"n1", "n3"} ELSE {"n2"}]
Topologies == {Line}

\* the order in which a handler walks a neighbour list
Rank(n) == IF n = "n1" THEN 1 ELSE IF n = "n2" THEN 2 ELSE 3
Before(ds, d) == Cardinality({e \in ds : Rank(e) < Rank(d)})

\* a message between nodes: Broadcast { message }, BroadcastMany { messages } and
\* their acknowledgements; vals holds the value or values carried
BMsg(src, dest, id, re, type, vals) ==
    [src |-> src, dest |-> dest, id |-> id, re |-> re, type |-> type, vals |-> vals]

\* the handler task run_with_app spawns for a request; dup tells apart the tasks
\* spawned for repeated deliveries of one request
BTask(n, op, src, id, vals) ==
    [node |-> n, op |-> op, src |-> src, id |-> id, vals |-> vals, pc |-> "start",
     fresh |-> {},
     dup |-> Cardinality({h \in handlers : h.node = n /\ h.src = src /\ h.id = id})]

\* handler task h moves on as h2
Step(h, h2) == handlers' = (handlers \ {h}) \cup {h2}

\* v1: the neighbours a new value is forwarded to
ForwardTargets(n, src) == {d \in neighbours[n].v : d # src}

\* v2: the neighbours whose pending buffer takes the new values
BufferTargets(n, src) == {d \in neighbours[n].v : d # src}

\* spawn_rpc(dest, body, true) for every dest of ds: the requests sent
SpawnRpcs(n, ds, type, vals) ==
    {BMsg(n, d, nextId[n] + Before(ds, d), NoId, type, vals[d]) : d \in ds}

\* maelstrom.reply(request, body) of handler task h: to a node over the network,
\* to a client on the output
ReplyMsgs(h, type) ==
    IF h.src \in BNodes THEN {BMsg(h.node, h.src, NoId, h.id, type, {})} ELSE {}
ReplyOut(h, type) ==
    IF h.src \in BNodes THEN {} ELSE {Reply(h.id, type, {})}

\* the effect of a handler arm of task h that sends the requests rpcs, fills the
\* buffers as meta, records the forwarding fw and replies with type
BEffect(h, rpcs, meta, fw, type) ==
    LET n == h.node IN
    /\ net' = net \cup rpcs \cup ReplyMsgs(h, type)
    /\ out' = out \cup ReplyOut(h, type)
    /\ retrying' = retrying \cup rpcs
    /\ rpcTab' = [rpcTab EXCEPT ![n] = @ \cup {m.id : m \in rpcs}]
    /\ nextId' = [nextId EXCEPT ![n] = @ + Cardinality(rpcs)]
    /\ neighbours_meta' = [neighbours_meta EXCEPT ![n] = meta]
    /\ forwards' = forwards \cup fw
    /\ Step(h, [h EXCEPT !.pc = "done"])
    /\ UNCHANGED panics

\* the handler task h panics (an unwrap of an empty cell): nothing more is sent
BPanic(h) ==
    /\ Step(h, [h EXCEPT !.pc = "panicked"])
    /\ panics' = panics + 1
    /\ UNCHANGED <<net, out, retrying, rpcTab, nextId, neighbours_meta, forwards>>

\* the forwarding of the values vs by handler task h to the neighbours ds
Fw(h, ds, vs) ==
    {[node |-> h.node, dest |-> d, val |-> v, from |-> h.src, id |-> h.id, dup |-> h.dup] :
        d \in ds, v \in vs}

\* the holder recorded for the messages mutex while a handler has its guard
Held == 1

\* the messages mutex of node n can be taken
MessagesFree(n) == mutex[n] = NoTask

\* Topology: set the cells (set on a full cell changes nothing), reply topology_ok
BTopology(n) ==
    /\ app \in BApps
    /\ ~topoSent[n]
    /\ topoSent' = [topoSent EXCEPT ![n] = TRUE]
    /\ neighbours' = [neighbours EXCEPT ![n] = IF @.set THEN @ ELSE Cell(topology[n])]
    /\ out' = out \cup {Reply(Rank(n), "topology_ok", {})}
    /\ UNCHANGED <<app, unlocked, run, ctr, net, store, nextId, rpcTab, mutex, task, panics, held, applied,
                   topology, messages, neighbours_meta, gossip, forwards, retrying, resends,
                   handlers>>

\* Broadcast and BroadcastMany, up to the test under the guard: lock messages,
\* find the values not yet contained
BLockCheck(h) ==
    /\ app \in BApps
    /\ h \in handlers
    /\ h.pc = "start"
    /\ h.op \in {"broadcast", "broadcast_many"}
    /\ MessagesFree(h.node)
    /\ mutex' = [mutex EXCEPT ![h.node] = Held]
    /\ Step(h, [h EXCEPT !.pc = "checked", !.fresh = h.vals \ messages[h.node]])
    /\ UNCHANGED <<app, unlocked, run, ctr, net, out, store, nextId, rpcTab, task, panics, held, applied,
                   topology, topoSent, neighbours, messages, neighbours_meta, gossip,
                   forwards, retrying, resends>>

\* broadcast_v1 Broadcast: insert and drop the guard, forward to the neighbours
\* but the sender, reply; a contained value is only replied to, under the guard
B1Broadcast(h) ==
    /\ app = "broadcast_v1"
    /\ h \in handlers
    /\ h.pc = "checked"
    /\ h.op = "broadcast"
    /\ LET n == h.node
           tk == h
           ds == ForwardTargets(n, tk.src)
       IN /\ messages' = [messages EXCEPT ![n] = @ \cup tk.fresh]
          /\ mutex' = [mutex EXCEPT ![n] = NoTask]
          /\ IF tk.fresh = {}
             THEN BEffect(h, {}, neighbours_meta[n], {}, "broadcast_ok")
             ELSE IF ~neighbours[n].set
                  THEN BPanic(h)
                  ELSE BEffect(h, SpawnRpcs(n, ds, "broadcast", [d \in ds |-> tk.vals]),
                               neighbours_meta[n], Fw(h, ds, tk.fresh), "broadcast_ok")
    /\ UNCHANGED <<app, unlocked, run, ctr, store, task, held, applied, topology, topoSent, neighbours, gossip,
                   resends>>

\* broadcast_v2 Broadcast: insert and drop the guard, add the value to the buffer
\* of every neighbour but the sender, reply
B2Broadcast(h) ==
    /\ app = "broadcast_v2"
    /\ h \in handlers
    /\ h.pc = "checked"
    /\ h.op = "broadcast"
    /\ LET n == h.node
           tk == h
           ds == BufferTargets(n, tk.src)
       IN /\ messages' = [messages EXCEPT ![n] = @ \cup tk.fresh]
          /\ mutex' = [mutex EXCEPT ![n] = NoTask]
          /\ IF tk.fresh = {}
             THEN BEffect(h, {}, neighbours_meta[n], {}, "broadcast_ok")
             ELSE IF ~neighbours[n].set
                  THEN BPanic(h)
                  ELSE BEffect(h, {},
                               [d \in BNodes |-> IF d \in ds
                                                 THEN neighbours_meta[n][d] \cup tk.fresh
                                                 ELSE neighbours_meta[n][d]],
                               Fw(h, ds, tk.fresh), "broadcast_ok")
    /\ UNCHANGED <<app, unlocked, run, ctr, store, task, held, applied, topology, topoSent, neighbours, gossip,
                   resends>>

\* broadcast_v2 BroadcastMany: insert the new values, drop the guard, unwrap the
\* cells, extend the buffers of the neighbours but the sender, reply
B2BroadcastMany(h) ==
    /\ app = "broadcast_v2"
    /\ h \in handlers
    /\ h.pc = "checked"
    /\ h.op = "broadcast_many"
    /\ LET n == h.node
           tk == h
           ds == BufferTargets(n, tk.src)
       IN /\ messages' = [messages EXCEPT ![n] = @ \cup tk.fresh]
          /\ mutex' = [mutex EXCEPT ![n] = NoTask]
          /\ IF ~neighbours[n].set
             THEN BPanic(h)
             ELSE BEffect(h, {},
                          [d \in BNodes |-> IF d \in ds
                                            THEN neighbours_meta[n][d] \cup tk.fresh
                                            ELSE neighbours_meta[n][d]],
                          Fw(h, ds, tk.fresh), "broadcast_many_ok")
    /\ UNCHANGED <<app, unlocked, run, ctr, store, task, held, applied, topology, topoSent, neighbours, gossip,
                   resends>>

\* Read: clone messages under the guard, reply read_ok
BRead(h) ==
    /\ app \in BApps
    /\ h \in handlers
    /\ h.pc = "start"
    /\ h.op = "read"
    /\ MessagesFree(h.node)
    /\ Step(h, [h EXCEPT !.pc = "done"])
    /\ out' = out \cup {Reply(h.id, "read_ok", messages[h.node])}
    /\ UNCHANGED <<app, unlocked, run, ctr, net, store, nextId, rpcTab, mutex, task, panics, held, applied,
                   topology, topoSent, neighbours, messages, neighbours_meta, gossip,
                   forwards, retrying, resends>>

\* a sweep that sends the snapshot and leaves the buffer as it is: the flush C23
\* rules out
GossipKeep(data) == data

\* let messages = data.clone(); data.clear(): the buffer after the snapshot
GossipClear(data) == {}

\* gossip_broadcast, one sweep: unwrap neighbours_meta, then for every neighbour
\* take and clear its buffer and spawn a retried BroadcastMany unless it is empty
B2Gossip(n) ==
    /\ app = "broadcast_v2"
    /\ gossip[n] = "run"
    /\ IF ~neighbours[n].set
       THEN /\ gossip' = [gossip EXCEPT ![n] = "panicked"]
            /\ panics' = panics + 1
            /\ UNCHANGED <<net, retrying, rpcTab, nextId, neighbours_meta>>
       ELSE LET ds == {d \in neighbours[n].v : neighbours_meta[n][d] # {}}
                rpcs == SpawnRpcs(n, ds, "broadcast_many", neighbours_meta[n])
            IN /\ ds # {}
               /\ net' = net \cup rpcs
               /\ retrying' = retrying \cup rpcs
               /\ rpcTab' = [rpcTab EXCEPT ![n] = @ \cup {m.id : m \in rpcs}]
               /\ nextId' = [nextId EXCEPT ![n] = @ + Cardinality(rpcs)]
               /\ neighbours_meta' = [neighbours_meta EXCEPT ![n] =
                                        [d \in BNodes |-> GossipClear(neighbours_meta[n][d])]]
               /\ UNCHANGED <<gossip, panics>>
    /\ UNCHANGED <<app, unlocked, run, ctr, out, store, mutex, task, held, applied, topology, topoSent,
                   neighbours, messages, forwards, resends, handlers>>

\* rpc(.., retry = true): the interval ticks before the reply came, send again
BResend(m) ==
    /\ app \in BApps
    /\ m \in retrying
    /\ m.id \in rpcTab[m.src]
    /\ m \notin net
    /\ resends < MaxResend
    /\ resends' = resends + 1
    /\ net' = net \cup {m}
    /\ UNCHANGED <<app, unlocked, run, ctr, out, store, nextId, rpcTab, mutex, task, panics, held, applied,
                   topology, topoSent, neighbours, messages, neighbours_meta, gossip,
                   forwards, retrying, handlers>>

\* run_with_app reads a request line of another node and spawns its handler
BDeliver(m) ==
    /\ app \in BApps
    /\ m \in net
    /\ m.re = NoId
    /\ net' = net \ {m}
    /\ handlers' = handlers \cup {BTask(m.dest, m.type, m.src, m.id, m.vals)}
    /\ UNCHANGED <<app, unlocked, run, ctr, out, store, nextId, rpcTab, mutex, task, panics, held, applied,
                   topology, topoSent, neighbours, messages, neighbours_meta, gossip,
                   forwards, retrying, resends>>

\* run_with_app reads a reply line and spawns process_response: the sender is
\* removed and the waiting rpc returns; a second reply finds no sender
BProcessResponse(m) ==
    /\ app \in BApps
    /\ m \in net
    /\ m.re # NoId
    /\ net' = net \ {m}
    /\ rpcTab' = [rpcTab EXCEPT ![m.dest] = @ \ {m.re}]
    /\ UNCHANGED <<app, unlocked, run, ctr, out, store, nextId, mutex, task, panics, held, applied, bcast>>

ClientRequests == {h \in handlers : h.src = Client}

\* run_with_app reads a broadcast or read request of a client and spawns its
\* handler; the k-th request has msg_id k and a broadcast carries the new value k
BDispatch(n) ==
    /\ app \in BApps
    /\ Cardinality(ClientRequests) < MaxReq
    /\ LET k == Cardinality(ClientRequests) + 1
       IN \/ handlers' = handlers \cup {BTask(n, "broadcast", Client, k, {k})}
          \/ handlers' = handlers \cup {BTask(n, "read", Client, k, {})}
    /\ UNCHANGED <<app, unlocked, run, ctr, net, out, store, nextId, rpcTab, mutex, task, panics, held, applied,
                   topology, topoSent, neighbours, messages, neighbours_meta, gossip,
                   forwards, retrying, resends>>

\* ------------------------------------------------------- grow_counter_v1.rs
\* the deltas the clients add
Deltas == {3, 5}

\* AtomicI64::fetch_max as an addition: the merge C11 rules out
FetchMaxAsAdd(cur, v) == cur + v

\* AtomicI64::fetch_max: the new value of the slot
FetchMax(cur, v) == IF v > cur THEN v ELSE cur

\* the state an Add sends without the old value: the message C12 rules out
AddMessageDeltaOnly(old, delta) == delta

\* let message = old + *delta
AddMessage(old, delta) == old + delta

\* counters.values().map(|a| a.load(..)).sum() over the slots cs of the peers ps
RECURSIVE SlotSum(_, _)
SlotSum(cs, ps) ==
    IF ps = {} THEN 0
    ELSE LET p == CHOOSE q \in ps : TRUE IN cs[p] + SlotSum(cs, ps \ {p})

\* the handler task run_with_app spawns for the k-th request of a client
CTask(n, k, op, delta) ==
    [node |-> n, id |-> k, op |-> op, delta |-> delta, pc |-> "start", old |-> 0]

\* run_with_app reads an add or a read request of a client and spawns its handler
C1Dispatch(n) ==
    /\ app = "grow_counter_v1"
    /\ Cardinality(adds) < MaxReq
    /\ \/ \E d \in Deltas : adds' = adds \cup {CTask(n, Cardinality(adds) + 1, "add", d)}
       \/ adds' = adds \cup {CTask(n, Cardinality(adds) + 1, "read", 0)}
    /\ UNCHANGED <<app, unlocked, run, counters, recv, dups, net, out, store, nextId, rpcTab, mutex, task, panics, held,
                   applied, bcast>>

\* Add: fetch_add on the slot of this node returns the old value
C1FetchAdd(h) ==
    /\ app = "grow_counter_v1"
    /\ h \in adds
    /\ h.op = "add"
    /\ h.pc = "start"
    /\ counters' = [counters EXCEPT ![h.node][h.node] = @ + h.delta]
    /\ adds' = (adds \ {h}) \cup {[h EXCEPT !.pc = "fetched", !.old = counters[h.node][h.node]]}
    /\ UNCHANGED <<app, unlocked, run, recv, dups, net, out, store, nextId, rpcTab, mutex, task, panics, held,
                   applied, bcast>>

\* Add: reply add_ok, then send the state old + delta to every other node
C1AddSend(h) ==
    /\ app = "grow_counter_v1"
    /\ h \in adds
    /\ h.pc = "fetched"
    /\ out' = out \cup {Reply(h.id, "add_ok", 0)}
    /\ net' = net \cup {[src |-> h.node, dest |-> d, type |-> "broadcast",
                          val |-> AddMessage(h.old, h.delta)] : d \in Nodes \ {h.node}}
    /\ adds' = (adds \ {h}) \cup {[h EXCEPT !.pc = "done"]}
    /\ UNCHANGED <<app, unlocked, run, counters, recv, dups, store, nextId, rpcTab, mutex, task, panics, held,
                   applied, bcast>>

\* Read: reply read_ok with the sum of the slots
C1Read(h) ==
    /\ app = "grow_counter_v1"
    /\ h \in adds
    /\ h.op = "read"
    /\ h.pc = "start"
    /\ out' = out \cup {Reply(h.id, "read_ok", SlotSum(counters[h.node], Nodes))}
    /\ adds' = (adds \ {h}) \cup {[h EXCEPT !.pc = "done"]}
    /\ UNCHANGED <<app, unlocked, run, counters, recv, dups, net, store, nextId, rpcTab, mutex, task, panics,
                   held, applied, bcast>>

\* Broadcast: the state message m of a peer is read and handled, fetch_max on the
\* slot of its sender; the network may deliver the line once more later
C1Broadcast(m) ==
    /\ app = "grow_counter_v1"
    /\ m \in net
    /\ counters' = [counters EXCEPT ![m.dest][m.src] = FetchMax(@, m.val)]
    /\ recv' = [recv EXCEPT ![m.dest][m.src] = Append(@, m.val)]
    /\ \/ net' = net \ {m} /\ UNCHANGED dups
       \/ dups < MaxDup /\ dups' = dups + 1 /\ UNCHANGED net
    /\ UNCHANGED <<app, unlocked, run, adds, out, store, nextId, rpcTab, mutex, task, panics, held, applied,
                   bcast>>

\* ------------------------------------------------------- grow_counter_v2.rs
\* maelstrom.node_ids(), in the order of the init message
NodeSeq == <<"n1", "n2">>

\* the handler without its local mutex: the handler C13 rules out
CounterGuardNone(mx) == TRUE

\* let _lock_gaurd = self.lock.lock().await
CounterGuard(mx) == mx = NoTask

\* Value::Int(value + delta)
CounterSum(value, delta) == VInt(value + delta)

\* a guard dropped before the rpc is sent: the handler C25 describes
GuardDroppedBeforeRpc(t) == NoTask

\* _lock_gaurd lives to the end of handler: task t still owns the mutex of its
\* node while it sends an rpc and awaits the reply
GuardOverRpc(t) == t

\* handler, first await: the local mutex; then the first read of the arm
G2Begin(t) ==
    /\ app = "grow_counter_v2"
    /\ t \in 1..Len(task)
    /\ task[t].pc = "start"
    /\ CounterGuard(mutex[task[t].node])
    /\ LET tk == task[t]
       IN IF tk.op = "add"
          THEN Advance(t, [tk EXCEPT !.pc = "aread"], ReadBody(tk.node), NoReply, GuardOverRpc(t))
          ELSE Advance(t, [tk EXCEPT !.pc = "rread", !.i = 1, !.offset = 0],
                       ReadBody(NodeSeq[1]), NoReply, GuardOverRpc(t))

\* Add: the read returned; write value + delta under the node's own key
G2AddRead(t) ==
    /\ app = "grow_counter_v2"
    /\ Resumed(t, "aread")
    /\ LET tk == task[t]
           value == AsIntOr(ReadValue(tk.resp), 0)
       IN Advance(t, [tk EXCEPT !.pc = "awrite", !.offset = value],
                  WriteBody(tk.node, CounterSum(value, tk.msg)), NoReply, GuardOverRpc(t))

\* Add: the write returned; reply add_ok and drop the guard
G2AddWrite(t) ==
    /\ app = "grow_counter_v2"
    /\ Resumed(t, "awrite")
    /\ Advance(t, [task[t] EXCEPT !.pc = "done"], NoRpc, Reply(t, "add_ok", 0), NoTask)

\* Read: one read of the loop over node_ids returned
G2ReadLoop(t) ==
    /\ app = "grow_counter_v2"
    /\ Resumed(t, "rread")
    /\ LET tk == task[t]
           value == tk.offset + AsIntOr(ReadValue(tk.resp), 0)
       IN IF tk.i < Len(NodeSeq)
          THEN Advance(t, [tk EXCEPT !.i = @ + 1, !.offset = value],
                       ReadBody(NodeSeq[tk.i + 1]), NoReply, GuardOverRpc(t))
          ELSE Advance(t, [tk EXCEPT !.pc = "done", !.offset = value], NoRpc,
                       Reply(t, "read_ok", value), NoTask)

\* the tick of an rpc comes first (retry = false): a read's error leaves the
\* handler through `?`, the error of Add's write is dropped by `let _ =`
G2Timeout(t) ==
    /\ app = "grow_counter_v2"
    /\ t \in 1..Len(task)
    /\ Waiting(task[t])
    /\ IF task[t].pc = "awrite"
       THEN Advance(t, [task[t] EXCEPT !.pc = "done", !.aborted = TRUE], NoRpc,
                    Reply(t, "add_ok", 0), NoTask)
       ELSE Advance(t, [task[t] EXCEPT !.pc = "failed", !.aborted = TRUE], NoRpc,
                    NoReply, NoTask)

\* ------------------------------------------------------------- maelstrom.rs
\* One node's runtime, with every line of its input and every task it tracks.
\* OnceCell<NodeMeta>: empty until the first set
NoMeta == [set |-> FALSE, node_id |-> "", node_ids |-> << >>]
NodeMeta(id, ids) == [set |-> TRUE, node_id |-> id, node_ids |-> ids]

\* the init message Maelstrom sends, and an init message with another identity
FirstInit == NodeMeta("n1", <<"n1", "n2">>)
OtherInit == NodeMeta("n9", <<"n9">>)

\* an in_reply_to no request of this node ever carried
UnknownId == 99

\* Maelstrom::node_id
NodeId == IF node.set THEN node.node_id ELSE ""

\* OnceCell::set that never stores: the cell C17 rules out
OnceCellSetNever(cell, meta) == cell

\* OnceCell::set: stores when the cell is empty
OnceCellSet(cell, meta) == IF cell.set THEN cell ELSE meta

\* process_response that leaves the sender in the table: the table C14 rules out
SendersKept(tab, id) == tab

\* rpc.lock().await.remove(&in_reply_to): the table afterwards
SendersAfterRemove(tab, id) == tab \ {id}

\* a timeout path that removes the sender of the rpc: the table C27 rules out
SendersDroppedOnTimeout(tab, id) == tab \ {id}

\* return Err(TimedOut): the table afterwards, the sender is left in it
SendersAfterTimeout(tab, id) == tab

\* an rpc that takes every tick as a timeout: the rpc C15 rules out
RetryNever(retry) == FALSE

\* rpc's tick arm: if retry { send again } else { return Err(TimedOut) }
RetryResends(retry) == retry

\* a wait that returns at once: the shutdown C18 rules out
TrackerIdleAlways(ts) == TRUE

\* TaskTracker::wait returns when no tracked task is left running
TrackerIdle(ts) == \A t \in ts : t.pc \in {"done", "panic"}

\* the lines read so far
NRead == Len(lines)

\* the loop of run_with_app can read one more line
CanRead == loop = "reading" /\ NRead < MaxLines

\* the tokio runtime is alive: main has not returned
Alive == loop \in {"reading", "closing"}

\* a line written to stdout by Maelstrom::send; k counts the sends of one msg_id
Line1(dest, id, re, body, k) ==
    [src |-> NodeId, dest |-> dest, id |-> id, re |-> re, body |-> body, k |-> k]

\* a tracked task: a handler (h its kind), a process_response (re its
\* in_reply_to) or a spawned rpc; line is the input line it comes from
RTask(line, kind, h, re) ==
    [line |-> line, kind |-> kind, h |-> h, re |-> re, pc |-> "start", call |-> NoId,
     res |-> "none"]

\* the record of one call of Maelstrom::rpc; chan is the line of the reply in
\* its oneshot channel, ticks counts the ticks its select! took, beat is the
\* parity of the ticks taken after the last resend that is counted
RCall(id, dest, body, retry) ==
    [id |-> id, dest |-> dest, body |-> body, retry |-> retry, st |-> "wait",
     chan |-> NoId, ticks |-> 0, beat |-> 0]

Replace(S, old, new) == (S \ {old}) \cup {new}

\* the sends of msg_id id written so far
SendsOf(id) == {m \in outbox : m.id = id}

\* requests written again by retrying rpcs
Resent == Cardinality({m \in outbox : m.k > 1})

\* run_with_app reads an init line: set_node_meta(..)? and reply_with_id(InitOk)
RunInit(meta) ==
    /\ CanRead
    /\ lines' = Append(lines, "init")
    /\ IF node.set
       THEN /\ loop' = "err"
            /\ UNCHANGED <<node, next_msg_id, outbox>>
       ELSE /\ node' = OnceCellSet(node, meta)
            /\ outbox' = outbox \cup
                  {[src |-> IF node'.set THEN node'.node_id ELSE "", dest |-> Client,
                    id |-> next_msg_id, re |-> NRead + 1, body |-> "init_ok", k |-> 1]}
            /\ next_msg_id' = next_msg_id + 1
            /\ UNCHANGED loop
    /\ UNCHANGED <<rpc, task_tracker, calls, processed, atEof>>
    /\ UNCHANGED <<app, unlocked, ctr, net, out, store, nextId, rpcTab, mutex, task, panics, held,
                   applied, bcast>>

\* run_with_app reads a request line and spawns the handler of the application
RunRequest(h) ==
    /\ CanRead
    /\ lines' = Append(lines, h)
    /\ task_tracker' = task_tracker \cup {RTask(NRead + 1, "handler", h, NoId)}
    /\ UNCHANGED <<node, loop, rpc, next_msg_id, calls, outbox, processed, atEof>>
    /\ UNCHANGED <<app, unlocked, ctr, net, out, store, nextId, rpcTab, mutex, task, panics, held,
                   applied, bcast>>

\* run_with_app reads a line with in_reply_to = r and spawns process_response
RunReply(r) ==
    /\ CanRead
    /\ lines' = Append(lines, "reply")
    /\ task_tracker' = task_tracker \cup {RTask(NRead + 1, "response", "-", r)}
    /\ UNCHANGED <<node, loop, rpc, next_msg_id, calls, outbox, processed, atEof>>
    /\ UNCHANGED <<app, unlocked, ctr, net, out, store, nextId, rpcTab, mutex, task, panics, held,
                   applied, bcast>>

\* the input ends: graceful_shutdown closes the tracker and starts to wait
RunEof ==
    /\ loop = "reading"
    /\ lines' = Append(lines, "eof")
    /\ loop' = "closing"
    /\ atEof' = {t \in task_tracker : t.pc \notin {"done", "panic"}}
    /\ UNCHANGED <<node, rpc, next_msg_id, task_tracker, calls, outbox, processed>>
    /\ UNCHANGED <<app, unlocked, ctr, net, out, store, nextId, rpcTab, mutex, task, panics, held,
                   applied, bcast>>

\* task_tracker.wait() returns and run_with_app returns Ok(())
RunReturn ==
    /\ loop = "closing"
    /\ TrackerIdle(task_tracker)
    /\ loop' = "ok"
    /\ UNCHANGED <<node, lines, rpc, next_msg_id, task_tracker, calls, outbox, processed,
                   atEof>>
    /\ UNCHANGED <<app, unlocked, ctr, net, out, store, nextId, rpcTab, mutex, task, panics, held,
                   applied, bcast>>

\* Maelstrom::rpc up to its select!, run by task t: allocate the id, insert the
\* sender, send; the first tick of the interval completes at once
RpcBegin(t, dest, body, retry) ==
    /\ calls' = calls \cup {RCall(next_msg_id, dest, body, retry)}
    /\ rpc' = rpc \cup {next_msg_id}
    /\ outbox' = outbox \cup {Line1(dest, next_msg_id, NoId, body, 1)}
    /\ task_tracker' = Replace(task_tracker, t, [t EXCEPT !.pc = "await", !.call = next_msg_id])
    /\ next_msg_id' = next_msg_id + 1

\* a handler like echo's: reply_with_id to the client and return
HandleReply(t) ==
    /\ Alive
    /\ t \in task_tracker
    /\ t.kind = "handler" /\ t.h = "echo" /\ t.pc = "start"
    /\ outbox' = outbox \cup {Line1(Client, next_msg_id, t.line, "echo_ok", 1)}
    /\ next_msg_id' = next_msg_id + 1
    /\ task_tracker' = Replace(task_tracker, t, [t EXCEPT !.pc = "done"])
    /\ UNCHANGED <<node, loop, lines, rpc, calls, processed, atEof>>
    /\ UNCHANGED <<app, unlocked, ctr, net, out, store, nextId, rpcTab, mutex, task, panics, held,
                   applied, bcast>>

\* a handler like grow_counter_v2's: rpc(.., false) awaited inside the handler
HandleRpc(t) ==
    /\ Alive
    /\ t \in task_tracker
    /\ t.kind = "handler" /\ t.h = "rpc" /\ t.pc = "start"
    /\ RpcBegin(t, SeqKv, "read", FALSE)
    /\ UNCHANGED <<node, loop, lines, processed, atEof>>
    /\ UNCHANGED <<app, unlocked, ctr, net, out, store, nextId, rpcTab, mutex, task, panics, held,
                   applied, bcast>>

\* a handler like broadcast_v1's: spawn_rpc(.., true) and return
HandleSpawn(t) ==
    /\ Alive
    /\ t \in task_tracker
    /\ t.kind = "handler" /\ t.h = "spawn" /\ t.pc = "start"
    /\ task_tracker' = Replace(task_tracker, t, [t EXCEPT !.pc = "done"])
                          \cup {RTask(t.line, "rpc", "-", NoId)}
    /\ UNCHANGED <<node, loop, lines, rpc, next_msg_id, calls, outbox, processed, atEof>>
    /\ UNCHANGED <<app, unlocked, ctr, net, out, store, nextId, rpcTab, mutex, task, panics, held,
                   applied, bcast>>

\* the task spawn_rpc spawned starts its rpc with retry = true
SpawnedRpc(t) ==
    /\ Alive
    /\ t \in task_tracker
    /\ t.kind = "rpc" /\ t.pc = "start"
    /\ RpcBegin(t, "n2", "broadcast", TRUE)
    /\ UNCHANGED <<node, loop, lines, processed, atEof>>
    /\ UNCHANGED <<app, unlocked, ctr, net, out, store, nextId, rpcTab, mutex, task, panics, held,
                   applied, bcast>>

\* the task that awaits call c
Owner(c) == CHOOSE t \in task_tracker : t.call = c.id

\* rpc's select!, tick arm: send again when retry, else return Err(TimedOut)
RpcTick(c) ==
    /\ Alive
    /\ c \in calls
    /\ c.st = "wait"
    /\ IF RetryResends(c.retry)
       THEN /\ Resent < MaxResend
            /\ outbox' = outbox \cup
                  {Line1(c.dest, c.id, NoId, c.body, Cardinality(SendsOf(c.id)) + 1)}
            /\ calls' = Replace(calls, c, [c EXCEPT !.ticks = @ + 1])
            /\ UNCHANGED <<task_tracker, rpc>>
       ELSE /\ calls' = Replace(calls, c, [c EXCEPT !.ticks = @ + 1, !.st = "timeout"])
            /\ task_tracker' = Replace(task_tracker, Owner(c),
                                       [Owner(c) EXCEPT !.pc = "done", !.res = "timeout"])
            /\ rpc' = SendersAfterTimeout(rpc, c.id)
            /\ UNCHANGED outbox
    /\ UNCHANGED <<node, loop, lines, next_msg_id, processed, atEof>>
    /\ UNCHANGED <<app, unlocked, ctr, net, out, store, nextId, rpcTab, mutex, task, panics, held,
                   applied, bcast>>

\* rpc's select!, receiver arm: return Ok(msg)
RpcReceive(c) ==
    /\ Alive
    /\ c \in calls
    /\ c.st = "wait"
    /\ c.chan # NoId
    /\ calls' = Replace(calls, c, [c EXCEPT !.st = "ok"])
    /\ task_tracker' = Replace(task_tracker, Owner(c),
                               [Owner(c) EXCEPT !.pc = "done", !.res = "ok"])
    /\ UNCHANGED <<node, loop, lines, rpc, next_msg_id, outbox, processed, atEof>>
    /\ UNCHANGED <<app, unlocked, ctr, net, out, store, nextId, rpcTab, mutex, task, panics, held,
                   applied, bcast>>

\* process_response: remove the sender and, if there was one, send the reply
\* through it; send(..).unwrap() panics when the rpc has returned already
ProcessReply(t) ==
    /\ Alive
    /\ t \in task_tracker
    /\ t.kind = "response" /\ t.pc = "start"
    /\ rpc' = SendersAfterRemove(rpc, t.re)
    /\ IF t.re \in rpc
       THEN LET c == CHOOSE x \in calls : x.id = t.re
            IN IF c.st = "wait"
               THEN /\ calls' = Replace(calls, c, [c EXCEPT !.chan = t.line])
                    /\ processed' = Append(processed, [line |-> t.line, re |-> t.re,
                                                       to |-> c.id])
                    /\ task_tracker' = Replace(task_tracker, t, [t EXCEPT !.pc = "done"])
               ELSE /\ processed' = Append(processed, [line |-> t.line, re |-> t.re,
                                                       to |-> NoId])
                    /\ task_tracker' = Replace(task_tracker, t, [t EXCEPT !.pc = "panic"])
                    /\ UNCHANGED calls
       ELSE /\ processed' = Append(processed, [line |-> t.line, re |-> t.re, to |-> NoId])
            /\ task_tracker' = Replace(task_tracker, t, [t EXCEPT !.pc = "done"])
            /\ UNCHANGED calls
    /\ UNCHANGED <<node, loop, lines, next_msg_id, outbox, atEof>>
    /\ UNCHANGED <<app, unlocked, ctr, net, out, store, nextId, rpcTab, mutex, task, panics, held,
                   applied, bcast>>

\* ------------------------------------------------------------- dispatch
\* a handler task as run_with_app spawns it (maelstrom.rs 185-194)
NewTask(n, op, key, msg, offs, txn) ==
    [node |-> n, op |-> op, key |-> key, msg |-> msg, offs |-> offs, txn |-> txn,
     pc |-> "start", wait |-> NoId, resp |-> NoMsg, i |-> 0, tries |-> 0,
     data |-> << >>, offset |-> -1, res |-> EmptyMap, wid |-> NoId,
     seen |-> << >>, sent |-> {}, aborted |-> FALSE, old |-> VNone, new |-> VNone,
     lock |-> "none"]   \* lock is history: distributed_lock(true) returned Ok ("held"),
                        \* distributed_lock(false) was called ("released")

\* the offsets maps of the Poll and CommitOffsets requests the clients send, each
\* in the order the handler's HashMap iteration visits it
OffsetInputs ==
    { << <<"k1", 0>> >>, << <<"k1", 1>> >>, << <<"k1", 1>>, <<"k2", 0>> >> }
\* the keys of the ListCommittedOffsets requests the clients send
ListKeyInputs == { <<"k1", "k2">> }
\* the contents of log key k1 when the nodes start
InitialLogs == {Absent, VVec(<<5, 6>>)}

\* run_with_app reads a kafka request line of a client and spawns its handler
KDispatch(n) ==
    /\ app = "kafka_log"
    /\ Len(task) < MaxReq
    /\ \/ \E k \in LogKeys :
             task' = Append(task, NewTask(n, "send", k, 10 + Len(task), << >>, << >>))
       \/ \E o \in OffsetInputs :
             task' = Append(task, NewTask(n, "poll", "", 0, o, << >>))
       \/ \E o \in OffsetInputs :
             task' = Append(task, NewTask(n, "commit_offsets", "", 0, o, << >>))
       \/ \E ks \in ListKeyInputs :
             task' = Append(task, NewTask(n, "list_committed_offsets", "", 0, << >>, ks))
    /\ UNCHANGED <<app, unlocked, run, ctr, net, out, store, nextId, rpcTab, mutex, panics, held, applied, bcast>>

\* the transactions the clients of txn_rw_register send; u is the value written
TxnInputs(u) ==
    { << [f |-> "r", k |-> "1", v |-> VNone], [f |-> "w", k |-> "1", v |-> VInt(u)] >>,
      << [f |-> "w", k |-> "1", v |-> VInt(u)], [f |-> "w", k |-> "2", v |-> VInt(u)] >> }

\* run_with_app reads a txn request line of a client and spawns its handler
RDispatch(n) ==
    /\ app = "txn_rw_register"
    /\ Len(task) < MaxReq
    /\ \E x \in TxnInputs(10 + Len(task)) :
          task' = Append(task, NewTask(n, "txn", "", 0, << >>, x))
    /\ UNCHANGED <<app, unlocked, run, ctr, net, out, store, nextId, rpcTab, mutex, panics, held, applied, bcast>>

\* the transactions the clients of txn_list_append send; u, u + 1 are the values
\* appended (the workload appends every value once)
ListInputs(u) ==
    { << [f |-> "append", k |-> "1", v |-> VInt(u)] >>,
      << [f |-> "r", k |-> "1", v |-> VNone], [f |-> "append", k |-> "1", v |-> VInt(u)] >>,
      << [f |-> "append", k |-> "1", v |-> VInt(u)], [f |-> "append", k |-> "2", v |-> VInt(u + 1)] >>,
      << [f |-> "append", k |-> "1", v |-> VInt(u)], [f |-> "r", k |-> "1", v |-> VNone] >> }
\* the root value when the nodes start
InitialRoots == {Absent, VMap([k \in {"1"} |-> <<5>>])}

\* run_with_app reads a txn request line of a client and spawns its handler
LDispatch(n) ==
    /\ app = "txn_list_append"
    /\ Len(task) < MaxReq
    /\ \E x \in ListInputs(10 * (Len(task) + 1)) :
          task' = Append(task, NewTask(n, "txn", "", 0, << >>, x))
    /\ UNCHANGED <<app, unlocked, run, ctr, net, out, store, nextId, rpcTab, mutex, panics, held, applied, bcast>>

\* run_with_app reads an add or a read request of a client and spawns its handler
G2Dispatch(n) ==
    /\ app = "grow_counter_v2"
    /\ Len(task) < MaxReq
    /\ \/ \E d \in Deltas : task' = Append(task, NewTask(n, "add", n, d, << >>, << >>))
       \/ task' = Append(task, NewTask(n, "read", "", 0, << >>, << >>))
    /\ UNCHANGED <<app, unlocked, run, ctr, net, out, store, nextId, rpcTab, mutex, panics, held, applied, bcast>>

\* ------------------------------------------------------------ specifications
\* every node has processed its init line (init_ok took msg id 0)
\* the runtime state of the runs that do not follow one node's input
NoRun ==
    /\ node = NoMeta
    /\ loop = "reading"
    /\ lines = << >>
    /\ rpc = {}
    /\ next_msg_id = 0
    /\ task_tracker = {}
    /\ calls = {}
    /\ outbox = {}
    /\ processed = << >>
    /\ atEof = {}

\* the counter state of a run of another binary
NoCounter ==
    /\ counters = [n \in Nodes |-> [p \in Nodes |-> 0]]
    /\ recv = [n \in Nodes |-> [p \in Nodes |-> << >>]]
    /\ dups = 0
    /\ adds = {}

\* the broadcast state of a run of another binary
NoBroadcast ==
    /\ topology = [n \in BNodes |-> {}]
    /\ topoSent = [n \in BNodes |-> FALSE]
    /\ neighbours = [n \in BNodes |-> Unset]
    /\ messages = [n \in BNodes |-> {}]
    /\ neighbours_meta = [n \in BNodes |-> [d \in BNodes |-> {}]]
    /\ gossip = [n \in BNodes |-> "none"]
    /\ forwards = {}
    /\ retrying = {}
    /\ resends = 0
    /\ handlers = {}

InitLock ==
    /\ \/ /\ app = "kafka_log"
          /\ \E l \in InitialLogs :
                store = [k \in StoreKeys |-> IF k = "k1" THEN l ELSE Absent]
       \/ /\ app = "txn_rw_register"
          /\ store = [k \in StoreKeys |-> Absent]
    /\ net = {}
    /\ out = {}
    /\ nextId = [n \in Nodes |-> 1]
    /\ rpcTab = [n \in Nodes |-> {}]
    /\ mutex = [n \in Nodes |-> NoTask]
    /\ task = << >>
    /\ panics = 0
    /\ held = 0
    /\ applied = << >>
    /\ unlocked = {}
    /\ NoBroadcast
    /\ NoCounter
    /\ NoRun

NextLock ==
    \/ \E n \in Nodes : KDispatch(n)
    \/ \E m \in net : StoreHandle(m)
    \/ \E m \in net : ProcessResponse(m)
    \/ \E t \in 1..Len(task) : KBegin(t)
    \/ \E t \in 1..Len(task) : KAcquire(t)
    \/ \E t \in 1..Len(task) : KSendRead(t)
    \/ \E t \in 1..Len(task) : KSendWrite(t)
    \/ \E t \in 1..Len(task) : KPollRead(t)
    \/ \E t \in 1..Len(task) : KListRead(t)
    \/ \E t \in 1..Len(task) : KCommitRead(t)
    \/ \E t \in 1..Len(task) : KCommitWrite(t)
    \/ \E t \in 1..Len(task) : KRelease(t)
    \/ \E t \in 1..Len(task) : KTimeout(t)
    \/ \E n \in Nodes : RDispatch(n)
    \/ \E t \in 1..Len(task) : RBegin(t)
    \/ \E t \in 1..Len(task) : RAcquire(t)
    \/ \E t \in 1..Len(task) : RTxnOp(t)
    \/ \E t \in 1..Len(task) : RTxnTimeout(t)
    \/ \E t \in 1..Len(task) : RRelease(t)
    \/ \E t \in 1..Len(task) : RTimeout(t)

SpecLock == InitLock /\ [][NextLock]_vars

\* ------------------------------------------------------------------ claims
LockFree == store["lock"] \in {Absent, VNone}

\* C1: the lock key is absent, null or exactly one node's id, and every acquire
\* CAS answered cas_ok took the key from absent/null to its caller's id: while
\* the key holds an id exactly one acquire has been answered cas_ok since it was
\* last absent, and none while it is absent.
C1_LockExclusive ==
    /\ store["lock"] \in {Absent, VNone} \cup {VStr(n) : n \in Nodes}
    /\ held = IF LockFree THEN 0 ELSE 1

\* an acquire of one node was rejected while the other node's id is in the key
C1_Witness ==
    \E m \in net :
        /\ m.src = LinKv /\ m.key = "lock" /\ m.type = "error"
        /\ \E n \in Nodes \ {m.dest} : store["lock"] = VStr(n)

\* a handler is in the distributed critical section from the cas_ok of its
\* acquire until it issues its release
InCS(t) == task[t].pc \in {"sread", "swrite", "cread", "cwrite", "top"}

\* C2: at most one handler execution over all nodes is in the critical section,
\* the lock key then names its node, and it holds its node's local mutex.
C2_MutualExclusion ==
    \A t1 \in 1..Len(task) :
        InCS(t1) =>
            /\ \A t2 \in 1..Len(task) : InCS(t2) => t1 = t2
            /\ store["lock"] = VStr(task[t1].node)
            /\ mutex[task[t1].node] = t1

\* a handler is in the critical section while another node's acquire was rejected
C2_Witness ==
    \E t1, t2 \in 1..Len(task) :
        /\ InCS(t1)
        /\ task[t2].node # task[t1].node
        /\ task[t2].pc = "acq"
        /\ task[t2].resp.type = "error"

SendAcks == {r \in out : r.kind = "send_ok"}
\* the positions in the store's history of the write handler t issued for its Send
AppliedOf(t) ==
    {j \in 1..Len(applied) : applied[j].src = task[t].node /\ applied[j].id = task[t].wid}

\* C3: every send_ok carries the length the key's sequence had when the Send's
\* own write took effect, the sequence holds the sent value at that index, and
\* the acknowledged offsets of one key are distinct and increase in the order the
\* writes took effect.
C3_LogOffsets ==
    /\ \A r \in SendAcks :
          LET tk == task[r.by] IN
          /\ Cardinality(AppliedOf(r.by)) = 1
          /\ \A j \in AppliedOf(r.by) : applied[j].pre = r.payload
          /\ IsVec(store[tk.key])
          /\ Len(store[tk.key].v) > r.payload
          /\ store[tk.key].v[r.payload + 1] = tk.msg
    /\ \A r1, r2 \in SendAcks :
          (r1.by # r2.by /\ task[r1.by].key = task[r2.by].key) =>
              /\ r1.payload # r2.payload
              /\ \A j1 \in AppliedOf(r1.by), j2 \in AppliedOf(r2.by) :
                    j1 < j2 => r1.payload < r2.payload

\* two Sends to one key from different nodes were both acknowledged
C3_Witness ==
    \E r1, r2 \in SendAcks :
        /\ task[r1.by].node # task[r2.by].node
        /\ task[r1.by].key = task[r2.by].key
        /\ r1.payload = 2 /\ r2.payload = 3

\* C4: for each requested key the store held, poll_ok has exactly the pairs
\* [index, value] of the sequence read with index >= the requested offset, in
\* increasing index order (and that sequence is a prefix of the stored one); a key
\* the store did not hold is left out; Poll sends only reads of the log keys.
C4_PollResult ==
    /\ \A r \in out :
          r.kind = "poll_ok" =>
              \A i \in 1..Len(task[r.by].offs) :
                  LET k == task[r.by].offs[i][1]
                      o == task[r.by].offs[i][2]
                      val == task[r.by].seen[i]
                  IN IF IsVec(val)
                     THEN /\ k \in DOMAIN r.payload
                          /\ Len(r.payload[k]) = IF Len(val.v) > o THEN Len(val.v) - o ELSE 0
                          /\ \A j \in 1..Len(r.payload[k]) :
                                r.payload[k][j] = <<o + j - 1, val.v[o + j]>>
                          /\ IsVec(store[k])
                          /\ Len(store[k].v) >= Len(val.v)
                          /\ SubSeq(store[k].v, 1, Len(val.v)) = val.v
                     ELSE k \notin DOMAIN r.payload
    /\ \A t \in 1..Len(task) :
          task[t].op = "poll" => task[t].sent \subseteq {<<"read", k>> : k \in LogKeys}

\* a Poll from offset 1 returned the two entries 1 and 2 of a sequence of three
C4_Witness ==
    \E r \in out :
        /\ r.kind = "poll_ok"
        /\ task[r.by].offs[1] = <<"k1", 1>>
        /\ "k1" \in DOMAIN r.payload
        /\ Len(r.payload["k1"]) = 2

\* the committed offset of a log key, -1 while none is stored
CommittedOffset(k) == AsIntOr(store[Commited(k)], -1)

\* C5: the committed offset of every log key never decreases, and every write to
\* a committed-offset key still in flight carries an offset above the stored one
\* (a CommitOffsets whose offset is not above the stored one writes nothing).
C5_CommittedNeverRegress ==
    /\ [](\A m \in net :
            (m.dest = LinKv /\ m.type = "write" /\ m.key \in CommitKeys) =>
                AsIntOr(store[m.key], -1) < m.to.v)
    /\ [][\A k \in LogKeys : CommittedOffset(k)' >= CommittedOffset(k)]_vars

\* a CommitOffsets{k1: 0} went through its loop while 1 is committed for k1
C5_Witness ==
    \E t \in 1..Len(task) :
        /\ task[t].op = "commit_offsets"
        /\ task[t].offs[1] = <<"k1", 0>>
        /\ task[t].pc \in {"rel", "done"}
        /\ CommittedOffset("k1") = 1

InitTxn ==
    /\ app = "txn_list_append"
    /\ \E r \in InitialRoots :
          store = [k \in StoreKeys |-> IF k = "root" THEN r ELSE Absent]
    /\ net = {}
    /\ out = {}
    /\ nextId = [n \in Nodes |-> 1]
    /\ rpcTab = [n \in Nodes |-> {}]
    /\ mutex = [n \in Nodes |-> NoTask]
    /\ task = << >>
    /\ panics = 0
    /\ held = 0
    /\ applied = << >>
    /\ unlocked = {}
    /\ NoBroadcast
    /\ NoCounter
    /\ NoRun

NextTxn ==
    \/ \E n \in Nodes : LDispatch(n)
    \/ \E m \in net : StoreHandle(m)
    \/ \E m \in net : ProcessResponse(m)
    \/ \E t \in 1..Len(task) : LBegin(t)
    \/ \E t \in 1..Len(task) : LRead(t)
    \/ \E t \in 1..Len(task) : LCas(t)
    \/ \E t \in 1..Len(task) : LTimeout(t)

SpecTxn == InitTxn /\ [][NextTxn]_vars

\* ---------------------------------------------------- claims, txn_list_append
TxnOks == {r \in out : r.kind = "txn_ok"}

\* the store value a transaction that read old found under root
ReadAs(val) == IF val = Absent THEN VNone ELSE val

\* the entries of the root history made by the CAS of task t
CommitsOf(t) ==
    {j \in 1..Len(applied) : /\ applied[j].key = "root"
                             /\ applied[j].src = task[t].node
                             /\ applied[j].id = task[t].wid}

\* C6: two transactions that read the same root value and both change it are
\* never both answered txn_ok, and the CAS of every transaction answered txn_ok
\* replaced exactly the root value that transaction read
C6_RootConflictExclusion ==
    /\ \A r1, r2 \in TxnOks :
          (/\ r1.by # r2.by
           /\ task[r1.by].new # task[r1.by].old
           /\ task[r2.by].new # task[r2.by].old) => task[r1.by].old # task[r2.by].old
    /\ \A r \in TxnOks :
          /\ Cardinality(CommitsOf(r.by)) = 1
          /\ \A j \in CommitsOf(r.by) : ReadAs(applied[j].old) = task[r.by].old

\* two transactions read the same root, one is answered txn_ok and the CAS of
\* the other one was refused by the store
C6_Witness ==
    \E r1 \in TxnOks : \E t \in 1..Len(task) :
        /\ t # r1.by
        /\ task[t].old = task[r1.by].old
        /\ task[t].pc = "done"
        /\ task[t].aborted
        /\ \E r2 \in out : r2.by = t /\ r2.kind = "error"

\* the value v is in the list of key k of the root in the store
Visible(k, v) ==
    /\ store["root"].t = "Map"
    /\ k \in DOMAIN store["root"].v
    /\ \E i \in 1..Len(store["root"].v[k]) : store["root"].v[k][i] = v

Appends(txn) == {i \in 1..Len(txn) : txn[i].f = "append"}

\* C7: no append of a transaction answered with error code 30 is ever visible
\* in root, and all the appends of a transaction answered txn_ok are visible
C7_AbortAtomicity ==
    \A r \in out :
        LET txn == task[r.by].txn
        IN /\ (r.kind = "error" /\ r.payload = 30)
                => \A i \in Appends(txn) : ~Visible(txn[i].k, txn[i].v.v)
           /\ r.kind = "txn_ok"
                => \A i \in Appends(txn) : Visible(txn[i].k, txn[i].v.v)

\* the half of C7 about txn_ok alone
C7_CommittedVisible ==
    \A r \in TxnOks :
        \A i \in Appends(task[r.by].txn) :
            Visible(task[r.by].txn[i].k, task[r.by].txn[i].v.v)

InitBcast ==
    /\ app \in BApps
    /\ topology \in Topologies
    /\ topoSent = [n \in BNodes |-> FALSE]
    /\ neighbours = [n \in BNodes |-> Unset]
    /\ messages = [n \in BNodes |-> {}]
    /\ neighbours_meta = [n \in BNodes |-> [d \in BNodes |-> {}]]
    /\ gossip = [n \in BNodes |-> IF app = "broadcast_v2" THEN "run" ELSE "none"]
    /\ forwards = {}
    /\ retrying = {}
    /\ resends = 0
    /\ handlers = {}
    /\ store = [k \in StoreKeys |-> Absent]
    /\ net = {}
    /\ out = {}
    /\ nextId = [n \in BNodes |-> 1]
    /\ rpcTab = [n \in BNodes |-> {}]
    /\ mutex = [n \in BNodes |-> NoTask]
    /\ task = << >>
    /\ panics = 0
    /\ held = 0
    /\ applied = << >>
    /\ unlocked = {}
    /\ NoCounter
    /\ NoRun

NextBcast ==
    \/ \E n \in BNodes : BTopology(n)
    \/ \E n \in BNodes : BDispatch(n)
    \/ \E m \in net : BDeliver(m)
    \/ \E m \in net : BProcessResponse(m)
    \/ \E m \in retrying : BResend(m)
    \/ \E h \in handlers : BLockCheck(h)
    \/ \E h \in handlers : B1Broadcast(h)
    \/ \E h \in handlers : B2Broadcast(h)
    \/ \E h \in handlers : B2BroadcastMany(h)
    \/ \E h \in handlers : BRead(h)
    \/ \E n \in BNodes : B2Gossip(n)

SpecBcast == InitBcast /\ [][NextBcast]_vars

\* ------------------------------------------------------------ claims, broadcast
Finished(h) == h.pc \in {"done", "panicked"}

\* what handler task h forwarded (v1) or buffered (v2)
ForwardsOf(h) ==
    {f \in forwards : f.node = h.node /\ f.from = h.src /\ f.id = h.id /\ f.dup = h.dup}

\* C8: a delivery that carries only values already in the seen-set forwards and
\* buffers nothing and is still acknowledged, no handler forwards or buffers a
\* value that was already contained, and a node forwards or buffers a value at
\* most once per neighbour
C8_DedupIdempotence ==
    /\ \A h \in handlers :
          (Finished(h) /\ h.op \in {"broadcast", "broadcast_many"})
            => /\ \A f \in ForwardsOf(h) : f.val \in h.fresh
               /\ h.fresh = {} => h.pc = "done"
    /\ \A f1, f2 \in forwards :
          (f1.node = f2.node /\ f1.dest = f2.dest /\ f1.val = f2.val) => f1 = f2

\* the parts of C8 about the state: a handler forwards only what was new, and at
\* most once per neighbour
C8_ForwardedOnce ==
    /\ \A h \in handlers : \A f \in ForwardsOf(h) : f.val \in h.fresh
    /\ \A f1, f2 \in forwards :
          (f1.node = f2.node /\ f1.dest = f2.dest /\ f1.val = f2.val) => f1 = f2

\* the part of C8 about a step: the handler of a delivery without a new value
\* changes neither the seen-set nor a buffer and spawns no rpc
C8_DuplicateChangesNothing ==
    [][\A h \in handlers :
          (h.pc = "checked" /\ h.fresh = {} /\ h \notin handlers')
            => /\ messages' = messages
               /\ neighbours_meta' = neighbours_meta
               /\ retrying' = retrying
               /\ forwards' = forwards]_vars

\* nothing is in flight or pending: every request was handled and every rpc
\* answered, every Topology was read and every buffer that can be flushed is empty;
\* only reads of clients may wait
Settled ==
    /\ net = {}
    /\ \A h \in handlers : Finished(h) \/ h.op = "read"
    /\ \A n \in BNodes : rpcTab[n] = {} /\ topoSent[n]
    /\ \A n \in BNodes :
          gossip[n] = "panicked" \/ \A d \in BNodes : neighbours_meta[n][d] = {}

\* the values accepted by any node
Introduced == UNION {messages[n] : n \in BNodes}

\* C9: when nothing is in flight any more, the seen-set of every node (which is
\* what a read returns) is the union of the values introduced anywhere
C9_Convergence == Settled => \A n \in BNodes : messages[n] = Introduced

\* C9 for the runs in which no task panicked
C9_ConvergenceWithoutPanic ==
    (Settled /\ panics = 0) => \A n \in BNodes : messages[n] = Introduced

\* C10: the handler of a first receipt of a value from S forwards or buffers it
\* for every neighbour of its node other than S and for no one else, never for S
C10_ForwardExcludesSender ==
    /\ \A f \in forwards : f.dest # f.from /\ f.dest \in topology[f.node]
    /\ \A h \in handlers :
          Finished(h) =>
            \A v \in h.fresh :
                {f.dest : f \in {g \in ForwardsOf(h) : g.val = v}} = topology[h.node] \ {h.src}

\* the part of C10 that never depends on the Topology request: nothing goes
\* back to the sender or to a node that is no neighbour, and a handler that
\* completed served every neighbour but the sender
C10_NeverBackToSender ==
    /\ \A f \in forwards : f.dest # f.from /\ f.dest \in topology[f.node]
    /\ \A h \in handlers :
          h.pc = "done" =>
            \A v \in h.fresh :
                {f.dest : f \in {g \in ForwardsOf(h) : g.val = v}} = topology[h.node] \ {h.src}

\* ------------------------------------------------- claims, grow_counter_v1
InitCtr1 ==
    /\ app = "grow_counter_v1"
    /\ counters = [n \in Nodes |-> [p \in Nodes |-> 0]]
    /\ recv = [n \in Nodes |-> [p \in Nodes |-> << >>]]
    /\ dups = 0
    /\ adds = {}
    /\ store = [k \in StoreKeys |-> Absent]
    /\ net = {}
    /\ out = {}
    /\ nextId = [n \in Nodes |-> 1]
    /\ rpcTab = [n \in Nodes |-> {}]
    /\ mutex = [n \in Nodes |-> NoTask]
    /\ task = << >>
    /\ panics = 0
    /\ held = 0
    /\ applied = << >>
    /\ unlocked = {}
    /\ NoBroadcast
    /\ NoRun

NextCtr1 ==
    \/ \E n \in Nodes : C1Dispatch(n)
    \/ \E h \in adds : C1FetchAdd(h)
    \/ \E h \in adds : C1AddSend(h)
    \/ \E h \in adds : C1Read(h)
    \/ \E m \in net : C1Broadcast(m)

SpecCtr1 == InitCtr1 /\ [][NextCtr1]_vars

\* the largest of 0 and the values of the sequence s
RECURSIVE MaxOf(_)
MaxOf(s) ==
    IF s = << >> THEN 0
    ELSE LET r == MaxOf(Tail(s)) IN IF Head(s) > r THEN Head(s) ELSE r

\* C11: at every node the slot of every peer is the maximum of 0 and the state
\* values handled so far from that peer, and no step lowers it
C11_MonotonicMerge ==
    /\ [](\A n \in Nodes : \A p \in Nodes \ {n} : counters[n][p] = MaxOf(recv[n][p]))
    /\ [][\A n \in Nodes : \A p \in Nodes \ {n} : counters'[n][p] >= counters[n][p]]_vars

\* a node handled 8 and after it a smaller or equal state of the same peer
C11_Witness ==
    \E n \in Nodes : \E p \in Nodes \ {n} :
        /\ counters[n][p] = 8
        /\ \E i, j \in 1..Len(recv[n][p]) : i < j /\ recv[n][p][i] = 8 /\ recv[n][p][j] <= 8

RECURSIVE SumDeltas(_)
SumDeltas(hs) ==
    IF hs = {} THEN 0
    ELSE LET h == CHOOSE x \in hs : TRUE IN h.delta + SumDeltas(hs \ {h})

\* every Add ran to its end and every state message was handled by its
\* destination at least once
Delivered1 ==
    /\ \A h \in adds : h.op = "add" => h.pc = "done"
    /\ \A h \in adds : h.op = "add" =>
          \A d \in Nodes \ {h.node} :
              \E i \in 1..Len(recv[d][h.node]) : recv[d][h.node][i] = AddMessage(h.old, h.delta)

\* C12: once every state message was delivered at least once, the sum of the slots
\* of every node (what Read returns) is the sum of all deltas added anywhere, and
\* the largest state a node sent is its own slot
C12_OrderIndependentTotal ==
    Delivered1 =>
        /\ \A n \in Nodes : SlotSum(counters[n], Nodes) = SumDeltas(adds)
        /\ \A h \in adds : h.op = "add" => AddMessage(h.old, h.delta) <= counters[h.node][h.node]
        /\ \A n \in Nodes : (\E h \in adds : h.op = "add" /\ h.node = n) =>
              \E h \in adds : h.op = "add" /\ h.node = n
                              /\ AddMessage(h.old, h.delta) = counters[n][n]

\* two Adds of one node interleaved (the second fetched before the first sent) and
\* their states arrived in the other order, all delivered
C12_Witness ==
    /\ Delivered1
    /\ \E h1, h2 \in adds :
          /\ h1.op = "add" /\ h2.op = "add" /\ h1.node = h2.node /\ h1.old < h2.old
          /\ \E d \in Nodes \ {h1.node} :
                /\ Len(recv[d][h1.node]) >= 2
                /\ recv[d][h1.node][1] = AddMessage(h2.old, h2.delta)
                /\ counters[d][h1.node] = AddMessage(h2.old, h2.delta)

\* ------------------------------------------------- claims, grow_counter_v2
InitCtr2 ==
    /\ app = "grow_counter_v2"
    /\ store = [k \in StoreKeys |-> Absent]
    /\ net = {}
    /\ out = {}
    /\ nextId = [n \in Nodes |-> 1]
    /\ rpcTab = [n \in Nodes |-> {}]
    /\ mutex = [n \in Nodes |-> NoTask]
    /\ task = << >>
    /\ panics = 0
    /\ held = 0
    /\ applied = << >>
    /\ unlocked = {}
    /\ NoBroadcast
    /\ NoCounter
    /\ NoRun

NextCtr2 ==
    \/ \E n \in Nodes : G2Dispatch(n)
    \/ \E m \in net : StoreHandle(m)
    \/ \E m \in net : ProcessResponse(m)
    \/ \E t \in 1..Len(task) : G2Begin(t)
    \/ \E t \in 1..Len(task) : G2AddRead(t)
    \/ \E t \in 1..Len(task) : G2AddWrite(t)
    \/ \E t \in 1..Len(task) : G2ReadLoop(t)
    \/ \E t \in 1..Len(task) : G2Timeout(t)

SpecCtr2 == InitCtr2 /\ [][NextCtr2]_vars

\* the Add handlers of node n between their read and the end of their write
InAdd(n) ==
    {t \in 1..Len(task) : task[t].node = n /\ task[t].op = "add"
                           /\ task[t].pc \in {"aread", "awrite"}}

\* the sum of the deltas of the Add handlers ts
RECURSIVE DeltasOf(_)
DeltasOf(ts) ==
    IF ts = {} THEN 0
    ELSE LET t == CHOOSE x \in ts : TRUE IN task[t].msg + DeltasOf(ts \ {t})

\* no rpc of a handler ended with a timeout
AnsweredInTime == \A t \in 1..Len(task) : ~task[t].aborted

\* C13: on one node at most one Add handler is between its read and the end of
\* its write, and it owns the local mutex; when every store rpc was answered in
\* time and no Add of the node is in that section, the node's register is the sum
\* of the deltas of its completed Adds
C13_NoLocalLostUpdate ==
    \A n \in Nodes :
        /\ Cardinality(InAdd(n)) <= 1
        /\ \A t \in InAdd(n) : mutex[n] = t
        /\ (AnsweredInTime /\ InAdd(n) = {}) =>
              AsIntOr(IF store[n] = Absent THEN VNone ELSE store[n], 0) =
                 DeltasOf({t \in 1..Len(task) : task[t].node = n /\ task[t].op = "add"
                                                 /\ task[t].pc = "done"})

\* two Adds of one node completed, the second was spawned while the first was in
\* its section, and the register holds both deltas
C13_Witness ==
    /\ AnsweredInTime
    /\ \E n \in Nodes :
          /\ Cardinality({t \in 1..Len(task) : task[t].node = n /\ task[t].op = "add"
                                                /\ task[t].pc = "done"}) = 2
          /\ store[n] = VInt(task[1].msg + task[2].msg)
          /\ task[2].offset = task[1].msg

\* ------------------------------------------------------- claims, maelstrom.rs
\* the kinds of handler the applications give the runtime
HandlerKinds == {"echo", "rpc", "spawn"}

\* the in_reply_to values of the reply lines: any msg_id this node has allocated,
\* or one it never used
ReplyIds == 0..(next_msg_id - 1) \cup {UnknownId}

InitRun ==
    /\ app = "echo"
    /\ node = NoMeta
    /\ loop = "reading"
    /\ lines = << >>
    /\ rpc = {}
    /\ next_msg_id = 0
    /\ task_tracker = {}
    /\ calls = {}
    /\ outbox = {}
    /\ processed = << >>
    /\ atEof = {}
    /\ store = [k \in StoreKeys |-> Absent]
    /\ net = {}
    /\ out = {}
    /\ nextId = [n \in Nodes |-> 1]
    /\ rpcTab = [n \in Nodes |-> {}]
    /\ mutex = [n \in Nodes |-> NoTask]
    /\ task = << >>
    /\ panics = 0
    /\ held = 0
    /\ applied = << >>
    /\ unlocked = {}
    /\ NoBroadcast
    /\ NoCounter

NextRun ==
    \/ \E meta \in {FirstInit, OtherInit} : RunInit(meta)
    \/ \E h \in HandlerKinds : RunRequest(h)
    \/ \E r \in ReplyIds : RunReply(r)
    \/ RunEof
    \/ RunReturn
    \/ \E t \in task_tracker : HandleReply(t)
    \/ \E t \in task_tracker : HandleRpc(t)
    \/ \E t \in task_tracker : HandleSpawn(t)
    \/ \E t \in task_tracker : SpawnedRpc(t)
    \/ \E c \in calls : RpcTick(c)
    \/ \E c \in calls : RpcReceive(c)
    \/ \E t \in task_tracker : ProcessReply(t)

SpecRun == InitRun /\ [][NextRun]_vars

\* the call of rpc with msg_id id has been made
Issued(id) == \E c \in calls : c.id = id

\* C14: a reply is handed to an rpc only if its in_reply_to is the msg_id of that
\* rpc, it is the first processed reply with that in_reply_to, no rpc is handed two
\* replies, a reply with an unknown in_reply_to is handed to none, and an rpc that
\* returned Ok returned the one reply it was handed
C14_SingleFulfilment ==
    /\ \A i \in 1..Len(processed) :
          processed[i].to # NoId =>
             /\ processed[i].to = processed[i].re
             /\ Issued(processed[i].to)
             /\ \A j \in 1..Len(processed) :
                   (j # i /\ processed[j].re = processed[i].re) =>
                       (j > i /\ processed[j].to = NoId)
    /\ \A i \in 1..Len(processed) : ~Issued(processed[i].re) => processed[i].to = NoId
    /\ \A c \in calls :
          c.st = "ok" => \E i \in 1..Len(processed) :
                             processed[i].to = c.id /\ processed[i].line = c.chan

\* a retried rpc returned the first of two processed replies that answer it
C14_Witness ==
    \E c \in calls :
        /\ c.st = "ok"
        /\ Cardinality(SendsOf(c.id)) = 2
        /\ Len(processed) = 2
        /\ processed[1].to = c.id
        /\ processed[2].re = c.id /\ processed[2].to = NoId

\* C15: an rpc with retry = true never ends in a timeout, each tick it took sent
\* the same body with the same msg_id to the same destination once more, and it
\* returns only with a reply; an rpc with retry = false sent its request exactly
\* once and ends in a timeout exactly when it took a tick
C15_RetryAndTimeout ==
    \A c \in calls :
        /\ \A m \in SendsOf(c.id) : m.dest = c.dest /\ m.body = c.body /\ m.re = NoId
        /\ {m.k : m \in SendsOf(c.id)} = 1..Cardinality(SendsOf(c.id))
        /\ c.retry => /\ c.st # "timeout"
                      /\ Cardinality(SendsOf(c.id)) = 1 + c.ticks
                      /\ (c.st = "ok" => c.chan # NoId)
                      /\ (Owner(c).pc = "done" <=> c.st = "ok")
        /\ ~c.retry => /\ Cardinality(SendsOf(c.id)) = 1
                       /\ (c.st = "timeout" <=> c.ticks = 1)
                       /\ c.ticks <= 1

\* an rpc with retry = true sent its request again on a tick and returned the
\* reply, while an rpc with retry = false timed out after one send
C15_Witness ==
    /\ \E c \in calls : c.retry /\ c.ticks = 1 /\ c.st = "ok" /\ Cardinality(SendsOf(c.id)) = 2
    /\ \E c \in calls : ~c.retry /\ c.st = "timeout" /\ Cardinality(SendsOf(c.id)) = 1

\* the init lines read so far
Inits == Cardinality({i \in 1..Len(lines) : lines[i] = "init"})

\* C16 as the spec states it: a second init line is ignored and the runtime goes
\* on processing its input, no running task lost
C16_SecondInitIgnored == Inits >= 2 => loop # "err"

\* the part of C16 that holds: the identity, once set, never changes
C16_IdentityWriteOnce == [][node.set => node' = node]_vars

\* C17 as the spec states it: no line this node wrote carries an unset identity
C17_NoUnsetRead == \A m \in outbox : m.src # ""

\* C17, amended: when the init line is the first line of the input, the identity
\* is set and init_ok is written before any other line is read, and no handler,
\* rpc or reply ever reads an unset identity
C17_IdentitySetFirst ==
    (Len(lines) >= 1 /\ lines[1] = "init") =>
        /\ node.set
        /\ \E m \in outbox : m.body = "init_ok" /\ m.id = 0 /\ m.src = node.node_id
        /\ \A m \in outbox : m.src = node.node_id /\ m.src # ""

\* after init as the first line, a handler replied and an rpc was sent, both
\* under the identity of the init line
C17_Witness ==
    /\ Len(lines) >= 1 /\ lines[1] = "init"
    /\ \E m \in outbox : m.body = "echo_ok" /\ m.src = "n1"
    /\ \E c \in calls : \E m \in SendsOf(c.id) : m.src = "n1"

\* C18: run_with_app has returned Ok only if every task spawned through the
\* runtime has finished, the ones spawned after the input ended included
C18_ShutdownDrains ==
    loop = "ok" => \A t \in task_tracker : t.pc \in {"done", "panic"}

\* run_with_app returned after the end of the input found a handler, a
\* process_response and an awaited rpc unfinished
C18_Witness ==
    /\ loop = "ok"
    /\ \E t \in atEof : t.kind = "handler"
    /\ \E t \in atEof : t.kind = "response"
    /\ \E t \in task_tracker : t.kind = "rpc" /\ t.pc = "done"

\* ------------------------------------------- claims, the lock and timeouts
\* C19 as the spec states it: every read and write of a register transaction
\* takes effect at the store while the lock key holds the id of its node
C19_SerialAtStore == unlocked = {}

\* the part of C19 that holds: in the runs without an rpc timeout no register
\* operation takes effect outside the lock of its node
C19_SerialWithoutTimeout ==
    (\A t \in 1..Len(task) : task[t].pc # "failed" /\ ~task[t].aborted) => unlocked = {}

\* C20 as the spec states it: a handler that obtained the distributed lock has
\* called the release before it ends
C20_ReleasedOnEveryPath ==
    \A t \in 1..Len(task) :
        (task[t].pc \in {"done", "failed"} /\ task[t].lock # "none") => task[t].lock = "released"

\* the part of C20 that holds: txn_rw_register calls the release on every path
\* out of its critical section
C20_RegisterReleases ==
    app = "txn_rw_register" => C20_ReleasedOnEveryPath

\* ------------------------------------------ claims, rpc timeouts in handlers
\* the handler tasks that wrote a reply of the given kind
Repliers(kind) == {t \in 1..Len(task) : \E r \in out : r.by = t /\ r.kind = kind}

\* C21 as the spec states it: a handler one of whose rpcs timed out writes no
\* reply for its request, neither a success nor an error
C21_TimeoutSendsNoReply ==
    \A t \in 1..Len(task) : task[t].aborted => \A r \in out : r.by # t

\* the part of C21 that holds in grow_counter_v2: a timed-out read ends the
\* handler without a reply
C21_ReadTimeoutSilent ==
    \A t \in 1..Len(task) : task[t].pc = "failed" => \A r \in out : r.by # t

\* the register of node n in seq-kv, 0 while the key is absent
Register(n) == IF store[n] = Absent THEN 0 ELSE AsIntOr(store[n], 0)

\* no request or reply is in flight and every handler has ended
Quiescent2 ==
    /\ net = {}
    /\ \A t \in 1..Len(task) : task[t].pc \in {"done", "failed"}

\* C22 as the spec states it: add_ok is written only by a handler whose write was
\* acknowledged by the store, and at quiescence the registers hold at least the
\* deltas of all acknowledged Adds
C22_AckImpliesDurable ==
    /\ \A t \in Repliers("add_ok") : ~task[t].aborted
    /\ Quiescent2 => Register("n1") + Register("n2") >= DeltasOf(Repliers("add_ok"))

\* the consequence alone: at quiescence no acknowledged delta is missing
C22_NoAckedDeltaLost ==
    Quiescent2 => Register("n1") + Register("n2") >= DeltasOf(Repliers("add_ok"))

\* the part of C22 that holds: while no rpc timed out, add_ok follows the
\* acknowledged write and the register holds the acknowledged deltas
C22_DurableWithoutTimeout ==
    AnsweredInTime =>
        \A n \in Nodes :
            Register(n) >= DeltasOf({t \in Repliers("add_ok") : task[t].node = n})

\* ------------------------------------------------ claims, the gossip sweep
\* the BroadcastMany batches node n flushed for its neighbour d
Batches(n, d) ==
    {m \in retrying : m.type = "broadcast_many" /\ m.src = n /\ m.dest = d}

\* the values the handlers of node n appended to the buffer of neighbour d
Appended(n, d) == {f.val : f \in {g \in forwards : g.node = n /\ g.dest = d}}

\* C23: in broadcast_v2 no flushed batch is empty or holds a value that was not
\* appended, and every value appended to the buffer of a neighbour is either still
\* in that buffer and in no batch, or out of the buffer and in exactly one batch
C23_FlushAtomic ==
    app = "broadcast_v2" =>
        \A n, d \in BNodes :
            /\ \A m \in Batches(n, d) : m.vals # {} /\ m.vals \subseteq Appended(n, d)
            /\ neighbours_meta[n][d] \subseteq Appended(n, d)
            /\ \A v \in Appended(n, d) :
                  Cardinality({m \in Batches(n, d) : v \in m.vals}) =
                      IF v \in neighbours_meta[n][d] THEN 0 ELSE 1

\* a neighbour's buffer was flushed, took a later value and was flushed again:
\* two batches for one neighbour, each value in one of them
C23_Witness ==
    /\ app = "broadcast_v2"
    /\ \E n, d \in BNodes :
          /\ Cardinality(Batches(n, d)) = 2
          /\ Cardinality(Appended(n, d)) = 2
          /\ neighbours_meta[n][d] = {}

\* C24 as the spec states it: the sweep task of every node runs for the whole
\* lifetime of the node, whenever the topology message arrives
C24_SweepKeepsRunning ==
    app = "broadcast_v2" => \A n \in BNodes : gossip[n] = "run"

\* the part of C24 that holds: the sweep task ends only by sweeping before the
\* Topology request of its node was handled
C24_SweepEndsOnlyBeforeTopology ==
    [][\A n \in BNodes : (gossip[n] = "run" /\ gossip'[n] # "run") => ~neighbours[n].set]_vars

Requests == {m \in net : m.dest = LinKv}

\* C26 as the spec states it: an unconditional write is sent by the register
\* transactions only, never for the lock key or a log
C26_CasOnly ==
    \A m \in Requests :
        m.type = "write" => (app = "txn_rw_register" /\ m.key \in RegKeys)

\* C26, amended: the lock key is changed by compare-and-swap only; kafka_log
\* changes its logs and committed offsets by unconditional writes, each sent by a
\* node while the lock key holds its id; txn_rw_register writes its registers
C26_LockByCasLogsByWrite ==
    \A m \in Requests :
        /\ m.key = "lock" <=> m.type = "cas"
        /\ (m.type = "write" /\ app = "kafka_log") =>
              (m.key \in LogKeys \cup CommitKeys /\ store["lock"] = VStr(m.src))
        /\ (m.type = "write" /\ app = "txn_rw_register") => m.key \in RegKeys

\* kafka_log overwrites a log that holds values already, by a write sent under
\* the lock of its node
C26_Witness ==
    \E m \in Requests :
        /\ m.type = "write" /\ m.key \in LogKeys
        /\ store[m.key] # Absent
        /\ store["lock"] = VStr(m.src)

\* txn_list_append: root is changed by compare-and-swap only
C26_RootByCas ==
    \A m \in Requests : m.key = "root" => m.type \in {"read", "cas"}

\* ------------------------------------- claims, the pending-request table
\* a reply with in_reply_to = id has been processed
Answered(id) == \E i \in 1..Len(processed) : processed[i].re = id

\* C27: the table holds an entry for a msg_id exactly when an rpc with that id
\* was issued and no reply with that in_reply_to has been processed; a request is
\* on the wire only with its entry made, and a timeout removes nothing
C27_TableLifecycle ==
    /\ rpc = {c.id : c \in {x \in calls : ~Answered(x.id)}}
    /\ \A c \in calls : SendsOf(c.id) # {}
    /\ \A c \in calls : (c.st = "timeout" /\ ~Answered(c.id)) => c.id \in rpc

\* an rpc that timed out has left its entry in the table, and the entry of an
\* rpc that returned its reply is gone
C27_Witness ==
    /\ \E c \in calls : c.st = "timeout" /\ c.id \in rpc
    /\ \E c \in calls : c.st = "ok" /\ c.id \notin rpc

\* C28 as the spec states it: no task that processes a reply fails
C28_LateReplyHarmless == \A t \in task_tracker : t.pc # "panic"

\* the part of C28 that holds: a reply processed after its rpc timed out is
\* handed to no rpc and spawns no handler
C28_LateReplyCompletesNothing ==
    \A t \in task_tracker :
        t.pc = "panic" =>
            /\ t.kind = "response"
            /\ \E c \in calls : c.id = t.re /\ c.st = "timeout" /\ c.chan = NoId
            /\ \A i \in 1..Len(processed) : processed[i].line = t.line => processed[i].to = NoId

\* ---------------------------------------- claims, ListCommittedOffsets
ListOks == {r \in out : r.kind = "list_committed_offsets_ok"}

\* the keys a ListCommittedOffsets request names
KeysOf(t) == {task[t].txn[i] : i \in 1..Len(task[t].txn)}

\* C29 as the spec states it: every entry of a list_committed_offsets_ok is under
\* a requested key name and carries a committed offset stored for that key
C29_ListReflectsCommits ==
    \A r \in ListOks :
        \A e \in DOMAIN r.payload :
            /\ e \in KeysOf(r.by)
            /\ IsInt(store[Commited(e)])
            /\ r.payload[e] <= store[Commited(e)].v

\* the part of C29 that holds: every entry carries a committed offset that was
\* stored for a requested key, but under the key name with "-commited" appended
C29_EntriesUnderDerivedKey ==
    \A r \in ListOks :
        \A e \in DOMAIN r.payload :
            /\ \E k \in KeysOf(r.by) : e = Commited(k)
            /\ IsInt(store[e])
            /\ r.payload[e] <= store[e].v

\* ------------------------------------- claims, the whole-root transaction
\* the list of key k in the root map root, empty for a key it does not hold
RootList(root, k) == IF k \in DOMAIN root THEN root[k] ELSE << >>

\* the values the operations before index i of txn append to key k, in order
RECURSIVE PushedBefore(_, _, _)
PushedBefore(txn, k, i) ==
    IF i <= 1 THEN << >>
    ELSE PushedBefore(txn, k, i - 1)
         \o (IF txn[i - 1].f = "append" /\ txn[i - 1].k = k THEN <<txn[i - 1].v.v>> ELSE << >>)

\* the keys txn appends to
AppendKeys(txn) == {txn[i].k : i \in Appends(txn)}

\* C30: in a txn_ok reply every read carries the list of its key in the root
\* that was read, followed by the values the earlier appends of the transaction
\* pushed to that key, and the CAS installs that root with all the appends of
\* the transaction pushed, in order, onto the lists of their keys
C30_WholeRootResult ==
    \A r \in TxnOks :
        LET txn == r.payload
            root == RootMap(task[r.by].old)
        IN /\ \A i \in 1..Len(txn) :
                 txn[i].f = "r" =>
                    txn[i].v = VVec(RootList(root, txn[i].k) \o PushedBefore(txn, txn[i].k, i))
           /\ task[r.by].new =
                 VMap([k \in DOMAIN root \cup AppendKeys(txn) |->
                          RootList(root, k) \o PushedBefore(txn, k, Len(txn) + 1)])
           /\ \A j \in CommitsOf(r.by) : ReadAs(applied[j].old) = task[r.by].old

\* a txn_ok whose read follows an append of its own transaction to a key that
\* had a list in the root: the read carries the old list and the new value
C30_Witness ==
    \E r \in TxnOks :
        /\ Len(r.payload) = 2
        /\ r.payload[1].f = "append" /\ r.payload[2].f = "r"
        /\ r.payload[1].k = r.payload[2].k
        /\ Len(r.payload[2].v.v) >= 2

\* ------------------------------------------------ claims, the end of the run
\* rpc's select!, tick arm with retry = true once MaxResend resends are counted:
\* the request is written again and the loop goes on; the line is in outbox
\* already, only the beat of the interval changes
RpcTickAgain(c) ==
    /\ Alive
    /\ c \in calls
    /\ c.st = "wait"
    /\ RetryResends(c.retry)
    /\ Resent >= MaxResend
    /\ calls' = Replace(calls, c, [c EXCEPT !.beat = 1 - @])
    /\ UNCHANGED <<node, loop, lines, rpc, next_msg_id, task_tracker, outbox, processed, atEof>>
    /\ UNCHANGED <<app, unlocked, ctr, net, out, store, nextId, rpcTab, mutex, task, panics, held,
                   applied, bcast>>

\* the steps of the tasks spawned for input line l
TaskStep(l) ==
    \E t \in task_tracker :
        /\ t.line = l
        /\ \/ HandleReply(t)
           \/ HandleRpc(t)
           \/ HandleSpawn(t)
           \/ SpawnedRpc(t)
           \/ ProcessReply(t)

\* the select! of the rpc with msg_id id takes its tick arm
TickStep(id) ==
    \E c \in calls :
        /\ c.id = id
        /\ \/ RpcTick(c)
           \/ RpcTickAgain(c)

\* the select! of the rpc with msg_id id takes its receiver arm
ReceiveStep(id) == \E c \in calls : c.id = id /\ RpcReceive(c)

NextRunFair ==
    \/ NextRun
    \/ \E c \in calls : RpcTickAgain(c)

\* the tokio runtime polls every spawned task that can go on, every interval
\* ticks, a select! woken by its receiver takes the reply, and wait() returns
\* once the tracker is idle; nothing is assumed about the input
SpecRunFair ==
    /\ InitRun
    /\ [][NextRunFair]_vars
    /\ \A l \in 1..MaxLines : WF_vars(TaskStep(l))
    /\ \A id \in 0..MaxLines : WF_vars(TickStep(id)) /\ WF_vars(ReceiveStep(id))
    /\ WF_vars(RunReturn)

\* a request sent by an rpc with retry = true waits for a reply that no line
\* read so far carries
RetryUnanswered ==
    \E c \in calls :
        /\ c.retry /\ c.st = "wait" /\ c.chan = NoId
        /\ \A t \in task_tracker : t.kind = "response" /\ t.pc = "start" => t.re # c.id

\* a task that will call rpc with retry = true is still to run
RetryToCome ==
    \E t \in task_tracker :
        \/ t.kind = "handler" /\ t.h = "spawn" /\ t.pc = "start"
        \/ t.kind = "rpc" /\ t.pc = "start"

\* C31 as the spec states it: once the input has ended, run_with_app returns
C31_ShutdownTerminates == (loop = "closing") ~> (loop = "ok")

\* the part of C31 that holds: the drain ends when, at the end of the input, no
\* rpc with retry = true is unanswered and none is still to be made
C31_DrainEndsWithoutRetry ==
    (loop = "closing" /\ ~RetryUnanswered /\ ~RetryToCome) ~> (loop = "ok")

\* the run that never returns: the input has ended, every other task is
\* finished and a retrying rpc has gone on resending with no reply to come
C31_RetryForever ==
    /\ loop = "closing"
    /\ RetryUnanswered
    /\ \E c \in calls : c.retry /\ c.st = "wait" /\ c.beat = 1
    /\ \A t \in task_tracker : t.pc \in {"done", "panic"} \/ t.kind = "rpc"

====
